---- MODULE Spec2Model ----
(***************************************************************************)
(* A model of the struct-introspection engine of roninzo/structs:          *)
(* the indirection resolver (IndirectStruct), the field flattener          *)
(* (embedded.Explode), the descriptor (StructValue) with its pending-error *)
(* slot, the field slots (StructField) with the coercive Set, and the row  *)
(* cursor (StructRows).                                                    *)
(*                                                                         *)
(* reflect.Value is modelled by a reference into a memory of records:      *)
(* a descriptor's value is the address of the record it resolved, a slot's *)
(* value is an address plus the slot's absolute index path.  StructField   *)
(* objects live in a heap of field tables, so that the shallow copy made   *)
(* by Rows() shares them exactly as the Go slice of pointers does.         *)
(***************************************************************************)
EXTENDS Integers, Sequences, FiniteSets, TLC

(***************************************************************************)
(* Bounds of the model.                                                    *)
(***************************************************************************)
MaxRows == 2
MaxCursors == 1

(***************************************************************************)
(* Program constants.                                                      *)
(***************************************************************************)
OutOfRange == -1

\* An error value: its message and what the message names (a field name or
\* a field index).  Nil is the nil error.
NewError(msg) == [msg |-> msg, name |-> "", idx |-> 0]

Nil == NewError("")

errNoStructs == NewError("structs not found")
ErrNoRow == NewError("struct row not found")
ErrNoRows == NewError("struct rows not found")
ErrNoStructs == NewError("structs not found")
errRowsClosed == NewError("struct rows are closed")
ErrNotSettable == NewError("struct field is not settable")
ErrNotNillable == NewError("struct field is not nillable")

(***************************************************************************)
(* Values.  A value carries its kind k, whether it is a pointer to that    *)
(* kind (p) and then whether the pointer is nil (pnil), whether a nil-able *)
(* non-pointer (byte slice, interface, map, ...) is nil, and its payload:  *)
(* n and m are numbers, s is text.                                         *)
(*   bool        n in {0, 1}                                               *)
(*   intW/uintW  n is the number                                           *)
(*   floatW      n is the number times two (so halves are exact); the      *)
(*               magnitude HugeFloat stands for a finite float64 above     *)
(*               math.MaxFloat32                                           *)
(*   complexW    n, m are real and imaginary part, as for floats           *)
(*   duration    n nanoseconds;  time  n seconds;  string, bytes, error  s *)
(*   any         dk is the kind of the value the interface holds           *)
(* Text is a sequence of one-character strings, so that the conversions    *)
(* that inspect characters are computed, not tabulated.                    *)
(***************************************************************************)
Val(k, n, s) == [k |-> k, p |-> FALSE, pnil |-> FALSE, nil |-> FALSE, dk |-> "", n |-> n, m |-> 0, s |-> s]

Ty(k) == [k |-> k, p |-> FALSE]

PtrTy(k) == [k |-> k, p |-> TRUE]

TypeOf(v) == [k |-> v.k, p |-> v.p]

NilableKinds == {"bytes", "error", "any", "map", "slice", "chan", "func"}

\* reflect.Zero of a type
ZeroOf(t) ==
    IF t.p THEN [Val(t.k, 0, <<>>) EXCEPT !.p = TRUE, !.pnil = TRUE, !.nil = (t.k \in NilableKinds)]
    ELSE [Val(t.k, 0, <<>>) EXCEPT !.nil = (t.k \in NilableKinds)]

\* the value a non-nil pointer points to (reflect.Value.Elem)
Pointee(v) == [v EXCEPT !.p = FALSE, !.pnil = FALSE]

\* the pointer value whose pointee is pv
PointerTo(pv) == [pv EXCEPT !.p = TRUE, !.pnil = FALSE]

(***************************************************************************)
(* The classification predicates of package utils.                         *)
(***************************************************************************)
CanPtr(v) == v.p

\* a CanNil that knows pointers only
CanNilPointers(v) == v.p

CanNil(v) == v.p \/ v.k \in NilableKinds

CanInterface(v) == ~v.p /\ v.k \in {"error", "any"}

CanTime(v) == ~v.p /\ v.k = "time"

CanDuration(v) == ~v.p /\ v.k = "duration"

\* a slot of type error is an interface; an error made by errors.New is a
\* pointer (*errors.errorString) that implements it
CanError(v) == (~v.p /\ v.k = "error") \/ (v.p /\ ~v.pnil /\ v.k = "errorString")

CanString(v) == ~v.p /\ v.k = "string"

CanBool(v) == ~v.p /\ v.k = "bool"

\* time.Duration is an int64, so its reflect kind is Int64
CanInt(v) == ~v.p /\ v.k \in {"int8", "int64", "duration"}

CanUint(v) == ~v.p /\ v.k \in {"uint8", "uint64"}

CanFloat(v) == ~v.p /\ v.k \in {"float32", "float64"}

CanComplex(v) == ~v.p /\ v.k \in {"complex64", "complex128"}

CanBytes(v) == ~v.p /\ v.k = "bytes"

(***************************************************************************)
(* Numbers of a given width: reflect.Value's OverflowInt, SetInt, ...      *)
(***************************************************************************)
HugeFloat == 2000000000

OverflowInt(k, x) == k = "int8" /\ (x < -128 \/ x > 127)

\* reflect.Value.SetInt stores the low bits of x
WrapInt(k, x) == IF k = "int8" THEN ((x + 128) % 256) - 128 ELSE x

OverflowUint(k, x) == k = "uint8" /\ x > 255

WrapUint(k, x) == IF k = "uint8" THEN x % 256 ELSE x

Abs(x) == IF x < 0 THEN -x ELSE x

\* math.MaxFloat32 < |x|, for the finite x of the model
OverflowFloat(k, x) == k = "float32" /\ Abs(x) = HugeFloat

OverflowComplex(k, re, im) ==
    k = "complex64" /\ (OverflowFloat("float32", re) \/ OverflowFloat("float32", im))

\* int64(f): truncation toward zero of a float given in halves
TruncFloat(h) == IF h < 0 THEN -((-h) \div 2) ELSE h \div 2

(***************************************************************************)
(* Text.                                                                   *)
(***************************************************************************)
Digits == <<"0", "1", "2", "3", "4", "5", "6", "7", "8", "9">>

UpperCase == <<"A", "B", "C", "D", "E", "F", "G", "H", "I", "J", "K", "L", "M",
               "N", "O", "P", "Q", "R", "S", "T", "U", "V", "W", "X", "Y", "Z">>

LowerCase == <<"a", "b", "c", "d", "e", "f", "g", "h", "i", "j", "k", "l", "m",
               "n", "o", "p", "q", "r", "s", "t", "u", "v", "w", "x", "y", "z">>

ToLowerChar(c) ==
    IF \E i \in 1..26 : UpperCase[i] = c
    THEN LowerCase[CHOOSE i \in 1..26 : UpperCase[i] = c]
    ELSE c

ToLower(s) == [i \in 1..Len(s) |-> ToLowerChar(s[i])]

ContainsAny(s, chars) == \E i \in 1..Len(s) : s[i] \in chars

IsDigit(c) == \E i \in 1..10 : Digits[i] = c

DigitVal(c) == (CHOOSE i \in 1..10 : Digits[i] = c) - 1

RECURSIVE NatToStr(_)
NatToStr(n) == IF n < 10 THEN <<Digits[n + 1]>> ELSE NatToStr(n \div 10) \o <<Digits[(n % 10) + 1]>>

\* fmt.Sprintf("%d", n)
IntToStr(n) == IF n < 0 THEN <<"-">> \o NatToStr(-n) ELSE NatToStr(n)

\* fmt.Sprintf("%t", b)
BoolToStr(b) == IF b = 1 THEN <<"t", "r", "u", "e">> ELSE <<"f", "a", "l", "s", "e">>

\* fmt.Sprintf("%f", f) of a float given in halves: six decimals
FloatToStr(h) ==
    (IF h < 0 THEN <<"-">> ELSE <<>>) \o NatToStr(Abs(h) \div 2) \o <<".">>
    \o (IF Abs(h) % 2 = 1 THEN <<"5">> ELSE <<"0">>) \o <<"0", "0", "0", "0", "0">>

RECURSIVE StrToNat(_, _)
StrToNat(s, acc) == IF s = <<>> THEN acc ELSE StrToNat(Tail(s), acc * 10 + DigitVal(Head(s)))

\* the leading digits of s
RECURSIVE DigitPrefix(_)
DigitPrefix(s) ==
    IF s # <<>> /\ IsDigit(Head(s)) THEN <<Head(s)>> \o DigitPrefix(Tail(s)) ELSE <<>>

DurationUnit(u) ==
    CASE u = <<"n", "s">> -> 1
      [] u = <<"u", "s">> -> 1000
      [] u = <<"m", "s">> -> 1000000
      [] u = <<"s">> -> 1000000000
      [] OTHER -> 0

\* time.ParseDuration on a single term [-]<digits><unit>: [ok, n]
ParseDuration(s) ==
    LET neg == s # <<>> /\ Head(s) = "-"
        body == IF neg THEN Tail(s) ELSE s
        ds == DigitPrefix(body)
        unit == SubSeq(body, Len(ds) + 1, Len(body))
    IN  IF ds = <<>> \/ DurationUnit(unit) = 0
        THEN [ok |-> FALSE, n |-> 0]
        ELSE [ok |-> TRUE, n |-> (IF neg THEN -1 ELSE 1) * StrToNat(ds, 0) * DurationUnit(unit)]

\* utils.StringToTime on the layout "2006-01-02": [ok, n], n the day of the month
StringToTime(s) ==
    IF Len(s) = 10 /\ s[5] = "-" /\ s[8] = "-"
       /\ \A i \in {1, 2, 3, 4, 6, 7, 9, 10} : IsDigit(s[i])
    THEN [ok |-> TRUE, n |-> StrToNat(SubSeq(s, 9, 10), 0)]
    ELSE [ok |-> FALSE, n |-> 0]

\* time.Time.Format(time.RFC3339) of the model's times (a day of January 2021)
TimeToStr(n) ==
    <<"2", "0", "2", "1", "-", "0", "1", "-">> \o (IF n < 10 THEN <<"0">> ELSE <<>>) \o NatToStr(n)
    \o <<"T", "0", "0", ":", "0", "0", ":", "0", "0", "Z">>

(***************************************************************************)
(* StructField.Set.  An outcome is the error returned (Nil for none), the  *)
(* value the slot stores afterwards, and whether the call panicked.        *)
(***************************************************************************)
errOverflow == NewError("could not represent")
errWrongKind == NewError("wrong kind of value")
errDuration == NewError("Invalid duration value")
errTimeLayout == NewError("cannot parse time")

\* the untyped nil passed as dest
NilDest == Val("untyped nil", 0, <<>>)

\* a Preset that leaves a nil pointer nil
PresetNone(v) == v

\* utils.Preset: the pointer as stored once a nil pointer has been pointed
\* at a fresh zero value of the pointee type
Preset(v) == IF v.p /\ v.pnil THEN PointerTo(ZeroOf(Ty(v.k))) ELSE v

\* StructField.AssignableTo, on the slot's own value and the input
AssignableTo(v, x) == TypeOf(v) = TypeOf(x) \/ CanInterface(v)

Assigned(nv) == {[err |-> Nil, nv |-> nv]}

Refused(e, v) == {[err |-> e, nv |-> v]}

\* uint64(f) of a negative float is implementation-dependent in Go:
\* the low bits of int64(f) on amd64, zero where the conversion saturates
UintOfFloat(k, h) ==
    IF h >= 0 THEN {WrapUint(k, TruncFloat(h))}
    ELSE {WrapUint(k, TruncFloat(h) % 256), 0}

\* the category switch of Set: v is the target (the pointee after a preset)
Convert(v, x) ==
    CASE CanTime(v) ->
           IF CanTime(x) THEN Assigned([v EXCEPT !.n = x.n])
           ELSE IF CanString(x)
                THEN LET r == StringToTime(x.s)
                     IN  IF r.ok THEN Assigned([v EXCEPT !.n = r.n]) ELSE Refused(errTimeLayout, v)
                ELSE Refused(errWrongKind, v)
      [] CanDuration(v) ->
           IF CanDuration(x) THEN Assigned([v EXCEPT !.n = x.n])
           ELSE IF CanString(x)
                THEN LET t == IF ContainsAny(x.s, {"n", "s", "u", "µ", "m", "h"})
                              THEN x.s ELSE x.s \o <<"n", "s">>
                         r == ParseDuration(t)
                     IN  IF r.ok THEN Assigned([v EXCEPT !.n = r.n]) ELSE Refused(errDuration, v)
           ELSE IF CanInt(x) \/ CanUint(x) THEN Assigned([v EXCEPT !.n = x.n])
           ELSE IF CanFloat(x) THEN Assigned([v EXCEPT !.n = TruncFloat(x.n)])
           ELSE Refused(errWrongKind, v)
      [] CanError(v) ->
           IF CanError(x) THEN Assigned([v EXCEPT !.nil = x.nil, !.s = x.s])
           ELSE IF CanString(x) THEN Assigned([v EXCEPT !.nil = FALSE, !.s = x.s])
           ELSE Refused(errWrongKind, v)
      [] CanString(v) ->
           IF CanString(x) THEN Assigned([v EXCEPT !.s = x.s])
           ELSE IF CanBool(x) THEN Assigned([v EXCEPT !.s = BoolToStr(x.n)])
           ELSE IF CanInt(x) \/ CanUint(x) THEN Assigned([v EXCEPT !.s = IntToStr(x.n)])
           ELSE IF CanFloat(x) THEN Assigned([v EXCEPT !.s = FloatToStr(x.n)])
           ELSE IF CanBytes(x) THEN Assigned([v EXCEPT !.s = x.s])
           ELSE IF CanTime(x) THEN Assigned([v EXCEPT !.s = TimeToStr(x.n)])
           ELSE Refused(errWrongKind, v)
      [] CanBool(v) ->
           IF CanBool(x) THEN Assigned([v EXCEPT !.n = x.n])
           ELSE IF CanString(x)
                THEN IF ToLower(x.s) \in {<<"t", "r", "u", "e">>, <<"y", "e", "s">>, <<"y">>,
                                          <<"o", "k">>, <<"1">>}
                     THEN Assigned([v EXCEPT !.n = 1])
                     ELSE Assigned([v EXCEPT !.n = 0])
           ELSE IF CanInt(x)
                THEN IF x.n \in {0, 1} THEN Assigned([v EXCEPT !.n = 1]) ELSE Refused(errWrongKind, v)
           ELSE IF CanUint(x)
                THEN IF x.n \in {0, 1} THEN Assigned([v EXCEPT !.n = 0]) ELSE Refused(errWrongKind, v)
           ELSE IF CanFloat(x)
                THEN IF x.n \in {0, 2} THEN Assigned([v EXCEPT !.n = 0]) ELSE Refused(errWrongKind, v)
           ELSE Refused(errWrongKind, v)
      [] CanInt(v) ->
           IF CanInt(x)
           THEN IF OverflowInt(v.k, x.n) THEN Refused(errOverflow, v)
                ELSE Assigned([v EXCEPT !.n = WrapInt(v.k, x.n)])
           ELSE IF CanBool(x) THEN Assigned([v EXCEPT !.n = x.n])
           ELSE IF CanFloat(x) THEN Assigned([v EXCEPT !.n = WrapInt(v.k, TruncFloat(x.n))])
           ELSE Refused(errWrongKind, v)
      [] CanUint(v) ->
           IF CanUint(x)
           THEN IF OverflowUint(v.k, x.n) THEN Refused(errOverflow, v)
                ELSE Assigned([v EXCEPT !.n = WrapUint(v.k, x.n)])
           ELSE IF CanBool(x) THEN Assigned([v EXCEPT !.n = x.n])
           ELSE IF CanFloat(x) THEN {[err |-> Nil, nv |-> [v EXCEPT !.n = u]] : u \in UintOfFloat(v.k, x.n)}
           ELSE Refused(errWrongKind, v)
      [] CanFloat(v) ->
           IF CanFloat(x)
           THEN IF OverflowFloat(v.k, x.n) THEN Refused(errOverflow, v)
                ELSE Assigned([v EXCEPT !.n = x.n])
           ELSE IF CanInt(x) \/ CanUint(x) THEN Assigned([v EXCEPT !.n = 2 * x.n])
           ELSE Refused(errWrongKind, v)
      [] CanBytes(v) ->
           IF CanBytes(x) THEN Assigned([v EXCEPT !.nil = x.nil, !.s = x.s])
           ELSE IF CanString(x) THEN Assigned([v EXCEPT !.nil = FALSE, !.s = x.s])
           ELSE Refused(errWrongKind, v)
      [] CanComplex(v) ->
           IF CanComplex(x)
           THEN IF OverflowComplex(v.k, x.n, x.m) THEN Refused(errOverflow, v)
                ELSE Assigned([v EXCEPT !.n = x.n, !.m = x.m])
           ELSE Refused(errWrongKind, v)
      [] OTHER -> Refused(errWrongKind, v)

\* reflect.Value.Set(x) on a slot that AssignableTo accepted; it panics when
\* x is not assignable to an interface slot's type
AssignDirect(cur, x) ==
    IF cur.k = "any" /\ ~cur.p
    THEN {[err |-> Nil, val |-> [cur EXCEPT !.nil = FALSE, !.dk = x.k, !.n = x.n, !.m = x.m, !.s = x.s],
           panic |-> FALSE]}
    ELSE IF cur.k = "error" /\ ~cur.p
    THEN IF CanError(x)
         THEN {[err |-> Nil, val |-> [cur EXCEPT !.nil = x.nil, !.s = x.s], panic |-> FALSE]}
         ELSE {[err |-> Nil, val |-> cur, panic |-> TRUE]}
    ELSE {[err |-> Nil, val |-> x, panic |-> FALSE]}

\* StructField.SetNil
SetNil(canSet, cur) ==
    IF ~canSet THEN {[err |-> ErrNotSettable, val |-> cur, panic |-> FALSE]}
    ELSE IF ~CanNil(cur) THEN {[err |-> ErrNotNillable, val |-> cur, panic |-> FALSE]}
    ELSE {[err |-> Nil, val |-> ZeroOf(TypeOf(cur)), panic |-> FALSE]}

\* StructField.Set(dest) on a slot storing cur
Set(canSet, cur, x) ==
    IF ~canSet THEN {[err |-> ErrNotSettable, val |-> cur, panic |-> FALSE]}
    ELSE IF x = NilDest THEN SetNil(canSet, cur)
    ELSE LET preset == CanPtr(cur) /\ ~CanPtr(x)
             stored == IF preset THEN Preset(cur) ELSE cur
         IN  IF preset /\ stored.pnil
             THEN {[err |-> Nil, val |-> stored, panic |-> TRUE]}
             ELSE IF AssignableTo(cur, x) THEN AssignDirect(stored, x)
             ELSE {[err |-> r.err,
                    val |-> IF r.err # Nil THEN stored
                            ELSE IF preset THEN PointerTo(r.nv) ELSE r.nv,
                    panic |-> FALSE] :
                      r \in Convert(IF preset THEN Pointee(stored) ELSE stored, x)}

(***************************************************************************)
(* Record types.  A declared field has a name, is anonymous (embedded) or  *)
(* not, is exported or not, and has a type; a field of struct kind carries *)
(* the declared fields of that struct in sub.                              *)
(***************************************************************************)
Decl(name, ty) == [name |-> name, anon |-> FALSE, exported |-> TRUE, ty |-> ty, sub |-> <<>>]

Embedded(name, fields) ==
    [name |-> name, anon |-> TRUE, exported |-> TRUE, ty |-> Ty("struct"), sub |-> fields]

\* type Meta struct { id int8 };  type Server struct { Meta; Count int8 }
Meta == <<[Decl("id", Ty("int8")) EXCEPT !.exported = FALSE]>>

Server == <<Embedded("Meta", Meta), Decl("Count", Ty("int8"))>>

(***************************************************************************)
(* embedded.Explode: the flattened fields of a record type, in order; the  *)
(* position of an entry in the result is the Index the code assigns from   *)
(* its counter, Indexes is the absolute index path.                        *)
(***************************************************************************)
\* an Explode that gives every declared field an entry and descends nowhere
ExplodeDeclared(fields, x, i) ==
    [j \in 1..(Len(fields) - i + 1) |-> [Indexes |-> Append(x, i + j - 2), sf |-> fields[i + j - 1]]]

RECURSIVE ExplodeFrom(_, _, _)
ExplodeFrom(fields, x, i) ==
    IF i > Len(fields) THEN <<>>
    ELSE LET sf == fields[i]
             xi == Append(x, i - 1)
         IN  (IF sf.anon
              THEN IF sf.ty.k = "struct" /\ ~sf.ty.p THEN ExplodeFrom(sf.sub, xi, 1) ELSE <<>>
              ELSE <<[Indexes |-> xi, sf |-> sf]>>)
             \o ExplodeFrom(fields, x, i + 1)

Explode(fields) == ExplodeFrom(fields, <<>>, 1)

(***************************************************************************)
(* Descriptors (StructValue).  value is the address of the resolved record *)
(* (NoAddr for the zero reflect.Value), rows tells whether the sequence    *)
(* value is set, fields is the id of the field table the descriptor's      *)
(* fieldsByIndex and fieldsByName refer to (NoTable for nil).              *)
(***************************************************************************)
NoAddr == -1
NoTable == -1
NoParent == -1

ZeroStructValue ==
    [value |-> NoAddr, rows |-> FALSE, kinds |-> <<>>, fields |-> NoTable,
     Parent |-> NoParent, Error |-> Nil]

\* the errors of IndirectStruct name the kind they stopped at; the last one
\* gives the count of iterations and the kinds seen, joined by utils.Kinds
errUnsupported(k) == [msg |-> "is an unsupported pointer to a struct", name |-> k, idx |-> 0]
errNotPointer(k) == [msg |-> "is not a pointer", name |-> k, idx |-> 0]

RECURSIVE Kinds(_)
Kinds(kinds) ==
    IF kinds = <<>> THEN ""
    ELSE IF Len(kinds) = 1 THEN Head(kinds)
    ELSE Head(kinds) \o "," \o Kinds(Tail(kinds))

errNotFound(i, kinds) ==
    [msg |-> "struct not found after indirect lookups; kinds so far", name |-> Kinds(kinds), idx |-> i]

\* the bound on the iterations of the loop of IndirectStruct
MaxLookups == 3

\* a loop of IndirectStruct that is never cut short
NoCut(i) == FALSE

\* the check that ends the loop of IndirectStruct
Cut(i) == i > MaxLookups

\* the loop of IndirectStruct: t is the type still to unwrap, as the kinds
\* from the outside in; i counts the iterations
RECURSIVE IndirectLoop(_, _, _)
IndirectLoop(t, i, s) ==
    LET k == Head(t)
        s1 == [s EXCEPT !.kinds = Append(@, k)]
    IN  IF k = "struct" THEN [s1 EXCEPT !.value = 0]
        ELSE LET s2 == CASE k = "ptr" -> s1
                         [] k \in {"slice", "array"} -> [s1 EXCEPT !.rows = TRUE]
                         [] k \in {"map", "chan", "func"} -> [s1 EXCEPT !.Error = errUnsupported(k)]
                         [] OTHER -> [s1 EXCEPT !.Error = errNotPointer(k)]
             IN  IF s2.Error # Nil THEN s2
                 ELSE IF Cut(i + 1)
                      THEN [s2 EXCEPT !.Error = errNotFound(i + 1, s2.kinds)]
                 ELSE IndirectLoop(Tail(t), i + 1, s2)

IndirectStruct(t) == IndirectLoop(t, 0, ZeroStructValue)

errInvalidValue == NewError("invalid concrete value; want: struct or ptr or slice, got: <nil>")

\* a New that leaves the error of IndirectStruct pending in the descriptor
NewKeepsError(t) ==
    IF t = <<>> THEN [s |-> ZeroStructValue, err |-> errInvalidValue]
    ELSE [s |-> IndirectStruct(t), err |-> IndirectStruct(t).Error]

\* New(dest): t is the type of dest as its kinds from the outside in, and
\* <<>> for the untyped nil, for which New returns no descriptor; otherwise
\* the descriptor IndirectStruct finds, with its error swapped out by the
\* s.Err() that New returns
New(t) ==
    IF t = <<>> THEN [s |-> ZeroStructValue, err |-> errInvalidValue]
    ELSE [s |-> [IndirectStruct(t) EXCEPT !.Error = Nil], err |-> IndirectStruct(t).Error]

\* StructValue.IsValid
IsValid(s) == Len(s.kinds) > 0 /\ s.kinds[Len(s.kinds)] = "struct"

\* a Multiple that takes every descriptor for a sequence
MultipleAlways(s) == TRUE

\* StructValue.Multiple
Multiple(s) == s.rows

\* a destroy that forgets the values and keeps the shape path
destroyKeepsKinds(s) == [ZeroStructValue EXCEPT !.kinds = s.kinds]

\* StructValue.destroy
destroy(s) == ZeroStructValue

(***************************************************************************)
(* The state.                                                              *)
(*   input     what New was given: the kinds of its type from the outside  *)
(*             in, the length n of its sequence, its record type stype     *)
(*   mem       the records: mem[a][x] is the value at index path x of the  *)
(*             record at address a (the a-th element of the sequence)      *)
(*   sv        the descriptors: sv[0] is the one New returned, sv[c] the   *)
(*             copy embedded in cursor c                                   *)
(*   rownum    the rownum of each cursor                                   *)
(*   opened    how many cursors Rows has returned                          *)
(*   tables    the field tables: tables[d] holds the StructField objects   *)
(*             that descriptor d created in getFields                      *)
(*   ret       the last call and what it returned                          *)
(*   panicked  whether a call panicked                                     *)
(*   closed    the cursors Close was called on                             *)
(*   trues     how many calls of Next returned true, per cursor            *)
(***************************************************************************)
VARIABLES input, mem, sv, rownum, opened, tables, ret, panicked, closed, trues

vars == <<input, mem, sv, rownum, opened, tables, ret, panicked, closed, trues>>

Cursors == 1..MaxCursors

Descs == 0..MaxCursors

Returned(op, who, val, err) == [op |-> op, who |-> who, val |-> val, err |-> err]

\* the length of the sequence a descriptor iterates (s.rows.Len())
RowsLen == input.n

\* whether reflect can address the record, hence set its fields: anything
\* reached through a pointer or a slice element
Addressable == \E i \in 1..Len(input.path) : input.path[i] \in {"ptr", "slice"}

NoTables == [d \in Descs |-> [built |-> FALSE, byIndex |-> <<>>, byName |-> <<>>]]

(***************************************************************************)
(* Field tables.                                                           *)
(***************************************************************************)
\* StructValue.loadField: the StructField created for entry i of the
\* flattening, owned by descriptor d and bound to the record at address a
loadField(d, i, e, a) ==
    [index |-> i, indexes |-> e.Indexes, name |-> e.sf.name, addr |-> a,
     Parent |-> d, sf |-> e.sf]

\* StructValue.getFields on descriptor d whose table is nil: the table it
\* builds; loadField stores by name after storing by index, so a later
\* field of the same name replaces an earlier one in fieldsByName
NewTable(d) ==
    LET m == Explode(input.stype)
        byIndex == [i \in 1..Len(m) |-> loadField(d, i - 1, m[i], sv[d].value)]
        names == {m[i].sf.name : i \in 1..Len(m)}
    IN  [built |-> TRUE,
         byIndex |-> byIndex,
         byName |-> [nm \in names |->
                       (CHOOSE i \in 1..Len(m) :
                          /\ m[i].sf.name = nm
                          /\ \A j \in 1..Len(m) : m[j].sf.name = nm => j <= i) - 1]]

\* getFields runs the flattening only when fieldsByIndex is nil
NeedsFields(d) == sv[d].fields = NoTable

\* v.Type() on the zero reflect.Value panics
FieldsPanic(d) == NeedsFields(d) /\ sv[d].value = NoAddr

TablesAfterGetFields(d) == IF NeedsFields(d) THEN [tables EXCEPT ![d] = NewTable(d)] ELSE tables

SvAfterGetFields(d) == IF NeedsFields(d) THEN [sv EXCEPT ![d].fields = d] ELSE sv

\* New(nil) returns no descriptor
Exists(d) == (d = 0 /\ input.path # <<>>) \/ d \in 1..opened

Panic(op, d) ==
    /\ panicked' = TRUE
    /\ ret' = Returned(op, d, 0, Nil)
    /\ UNCHANGED <<input, mem, sv, rownum, opened, tables, closed, trues>>

(***************************************************************************)
(* Operations of a descriptor.                                             *)
(***************************************************************************)
\* a setError that keeps an error already pending
setErrorKeepsFirst(s, e) == IF s.Error # Nil THEN s ELSE [s EXCEPT !.Error = e]

\* StructValue.setError / setErrorf
setError(s, e) == [s EXCEPT !.Error = IF e.msg # "" THEN e ELSE Nil]

\* StructValue.setErr
setErr(s, e) == [s EXCEPT !.Error = e]

KeyNil == [t |-> "nil", i |-> 0, n |-> ""]

KeyInt(i) == [t |-> "int", i |-> i, n |-> ""]

KeyString(n) == [t |-> "string", i |-> 0, n |-> n]

KeyOther == [t |-> "float64", i |-> 0, n |-> ""]

errNilArgument == NewError("invalid nil argument")
errArgumentType == NewError("invalid argument type")
errFieldIndex(i) == [msg |-> "invalid field index", name |-> "", idx |-> i]
errFieldName(n) == [msg |-> "invalid field name", name |-> n, idx |-> 0]

\* StructValue.getFieldByIndex on a table already loaded: the slot's index,
\* or OutOfRange for the nil slot
getFieldByIndex(tab, i) == IF OutOfRange < i /\ i < Len(tab.byIndex) THEN i ELSE OutOfRange

\* StructValue.getFieldByName, likewise
getFieldByName(tab, n) == IF n \in DOMAIN tab.byName THEN tab.byName[n] ELSE OutOfRange

\* StructValue.Field(dest) on descriptor d; ret.val is the index of the slot
\* returned, in the table sv[d].fields, or OutOfRange for a nil slot
Field(d, key) ==
    /\ ~panicked /\ Exists(d)
    /\ IF key.t \in {"int", "string"} /\ FieldsPanic(d) THEN Panic("Field", d)
       ELSE /\ IF key.t \in {"int", "string"}
               THEN LET tabs == TablesAfterGetFields(d)
                        s1 == SvAfterGetFields(d)
                        tab == tabs[s1[d].fields]
                        f == IF key.t = "int" THEN getFieldByIndex(tab, key.i)
                             ELSE getFieldByName(tab, key.n)
                    IN  /\ tables' = tabs
                        /\ sv' = IF f # OutOfRange THEN s1
                                 ELSE [s1 EXCEPT ![d] =
                                         setError(@, IF key.t = "int" THEN errFieldIndex(key.i)
                                                     ELSE errFieldName(key.n))]
                        /\ ret' = Returned("Field", d, f, Nil)
               ELSE /\ tables' = tables
                    /\ sv' = [sv EXCEPT ![d] =
                                setError(@, IF key.t = "nil" THEN errNilArgument ELSE errArgumentType)]
                    /\ ret' = Returned("Field", d, OutOfRange, Nil)
            /\ UNCHANGED <<input, mem, rownum, opened, panicked, closed, trues>>

\* StructValue.Fields on descriptor d; ret.val is the number of fields
Fields(d) ==
    /\ ~panicked /\ Exists(d)
    /\ IF FieldsPanic(d) THEN Panic("Fields", d)
       ELSE /\ tables' = TablesAfterGetFields(d)
            /\ sv' = SvAfterGetFields(d)
            /\ ret' = Returned("Fields", d, Len(tables'[sv'[d].fields].byIndex), Nil)
            /\ UNCHANGED <<input, mem, rownum, opened, panicked, closed, trues>>

\* StructValue.NumField on descriptor d; ret.val is the number of fields
NumField(d) ==
    /\ ~panicked /\ Exists(d)
    /\ IF FieldsPanic(d) THEN Panic("NumField", d)
       ELSE /\ tables' = TablesAfterGetFields(d)
            /\ sv' = SvAfterGetFields(d)
            /\ ret' = Returned("NumField", d, Len(tables'[sv'[d].fields].byIndex), Nil)
            /\ UNCHANGED <<input, mem, rownum, opened, panicked, closed, trues>>

\* StructValue.Name on descriptor d: s.value.Type() panics on the zero
\* reflect.Value; the text of the name is not part of the state
Name(d) ==
    /\ ~panicked /\ Exists(d)
    /\ IF sv[d].value = NoAddr THEN Panic("Name", d)
       ELSE /\ ret' = Returned("Name", d, 0, Nil)
            /\ UNCHANGED <<input, mem, sv, rownum, opened, tables, panicked, closed, trues>>

\* StructValue.IsValid on descriptor d, asked by a caller; ret.val is 1 for
\* true and 0 for false
IsValidCall(d) ==
    /\ ~panicked /\ Exists(d)
    /\ ret' = Returned("IsValid", d, IF IsValid(sv[d]) THEN 1 ELSE 0, Nil)
    /\ UNCHANGED <<input, mem, sv, rownum, opened, tables, panicked, closed, trues>>

\* StructValue.Err on the descriptor New returned: swap the error out
Err ==
    /\ ~panicked /\ Exists(0)
    /\ ret' = Returned("Err", 0, 0, sv[0].Error)
    /\ sv' = [sv EXCEPT ![0].Error = Nil]
    /\ UNCHANGED <<input, mem, rownum, opened, tables, panicked, closed, trues>>

(***************************************************************************)
(* The row cursor (StructRows).                                            *)
(***************************************************************************)
\* StructRows.isClosed
isClosed(c) == ~IsValid(sv[c])

\* StructRows.Index
Index(c) == IF ~isClosed(c) THEN rownum[c] ELSE OutOfRange

\* StructRows.Len
LenRows(c) == IF ~isClosed(c) THEN RowsLen ELSE OutOfRange

\* StructRows.MaxRow
MaxRow(c) == IF ~isClosed(c) THEN LenRows(c) - 1 ELSE OutOfRange

\* a Rows whose cursor starts on the first row
RowsAtFirst ==
    /\ ~panicked /\ Exists(0)
    /\ IF Multiple(sv[0]) /\ RowsLen > 0
       THEN /\ opened < MaxCursors
            /\ opened' = opened + 1
            /\ sv' = [sv EXCEPT ![opened + 1] = sv[0]]
            /\ rownum' = [rownum EXCEPT ![opened + 1] = 0]
            /\ ret' = Returned("Rows", opened + 1, 0, Nil)
       ELSE /\ ret' = Returned("Rows", 0, 0, IF Multiple(sv[0]) THEN ErrNoRows ELSE errNoStructs)
            /\ UNCHANGED <<opened, sv, rownum>>
    /\ UNCHANGED <<input, mem, tables, panicked, closed, trues>>

\* a Rows whose cursor never shares the field table of the descriptor
RowsDetached ==
    /\ ~panicked /\ Exists(0)
    /\ IF Multiple(sv[0]) /\ RowsLen > 0
       THEN /\ opened < MaxCursors
            /\ opened' = opened + 1
            /\ sv' = [sv EXCEPT ![opened + 1] = [sv[0] EXCEPT !.fields = NoTable]]
            /\ rownum' = [rownum EXCEPT ![opened + 1] = OutOfRange]
            /\ ret' = Returned("Rows", opened + 1, 0, Nil)
       ELSE /\ ret' = Returned("Rows", 0, 0, IF Multiple(sv[0]) THEN ErrNoRows ELSE errNoStructs)
            /\ UNCHANGED <<opened, sv, rownum>>
    /\ UNCHANGED <<input, mem, tables, panicked, closed, trues>>

\* StructValue.Rows on the descriptor New returned; ret.who is the cursor
\* returned, 0 for none
Rows ==
    /\ ~panicked /\ Exists(0)
    /\ IF Multiple(sv[0])
       THEN IF RowsLen > 0
            THEN /\ opened < MaxCursors
                 /\ opened' = opened + 1
                 /\ sv' = [sv EXCEPT ![opened + 1] = sv[0]]
                 /\ rownum' = [rownum EXCEPT ![opened + 1] = OutOfRange]
                 /\ ret' = Returned("Rows", opened + 1, 0, Nil)
            ELSE /\ ret' = Returned("Rows", 0, 0, ErrNoRows)
                 /\ UNCHANGED <<opened, sv, rownum>>
       ELSE /\ ret' = Returned("Rows", 0, 0, errNoStructs)
            /\ UNCHANGED <<opened, sv, rownum>>
    /\ UNCHANGED <<input, mem, tables, panicked, closed, trues>>

\* a getRow that leaves the slots on the row they were bound to
RebindStale(tabs, s, a) == tabs

\* a getRow that numbers the slots anew while it binds them
RebindRenumbered(tabs, s, a) ==
    IF s.fields = NoTable THEN tabs
    ELSE [tabs EXCEPT ![s.fields].byIndex =
            [i \in 1..Len(@) |-> [@[i] EXCEPT !.addr = a, !.index = Len(tabs[s.fields].byIndex) - i]]]

\* the slots of descriptor s's table bound to the record at address a
\* (the loop of getRow over s.fieldsByIndex)
Rebind(tabs, s, a) ==
    IF s.fields = NoTable THEN tabs
    ELSE [tabs EXCEPT ![s.fields].byIndex =
            [i \in 1..Len(@) |-> [@[i] EXCEPT !.addr = a]]]

\* StructValue.getRow(i) on descriptor d: the error it returns and stores
getRowErr(d, i) ==
    IF ~Multiple(sv[d]) THEN ErrNoStructs
    ELSE IF ~(RowsLen > 0) THEN ErrNoRows
    ELSE IF ~(OutOfRange < i /\ i < RowsLen) THEN ErrNoRow
    ELSE Nil

\* a Next that closes the cursor when there is no next row
NextClosing(c) ==
    /\ ~panicked /\ c \in 1..opened
    /\ IF ~isClosed(c) /\ rownum[c] + 1 < LenRows(c)
       THEN /\ sv' = [sv EXCEPT ![c] = setErr([@ EXCEPT !.value = rownum[c] + 1], Nil)]
            /\ tables' = Rebind(tables, sv[c], rownum[c] + 1)
            /\ rownum' = [rownum EXCEPT ![c] = @ + 1]
            /\ trues' = [trues EXCEPT ![c] = @ + 1]
            /\ ret' = Returned("Next", c, 1, Nil)
       ELSE /\ sv' = [sv EXCEPT ![c] = destroy(@)]
            /\ rownum' = [rownum EXCEPT ![c] = OutOfRange]
            /\ ret' = Returned("Next", c, 0, Nil)
            /\ UNCHANGED <<tables, trues>>
    /\ UNCHANGED <<input, mem, opened, panicked, closed>>

\* StructRows.Next; ret.val is 1 for true, 0 for false
Next(c) ==
    /\ ~panicked /\ c \in 1..opened
    /\ IF ~isClosed(c) /\ rownum[c] + 1 < LenRows(c)
       THEN LET i == rownum[c] + 1
                err == getRowErr(c, i)
            IN  IF err = Nil
                THEN /\ sv' = [sv EXCEPT ![c] = setErr([@ EXCEPT !.value = i], Nil)]
                     /\ tables' = Rebind(tables, sv[c], i)
                     /\ rownum' = [rownum EXCEPT ![c] = i]
                     /\ trues' = [trues EXCEPT ![c] = @ + 1]
                     /\ ret' = Returned("Next", c, 1, Nil)
                ELSE /\ sv' = [sv EXCEPT ![c] = setErr(@, err)]
                     /\ ret' = Returned("Next", c, 0, Nil)
                     /\ UNCHANGED <<tables, rownum, trues>>
       ELSE /\ ret' = Returned("Next", c, 0, Nil)
            /\ UNCHANGED <<sv, tables, rownum, trues>>
    /\ UNCHANGED <<input, mem, opened, panicked, closed>>

\* StructRows.Close
Close(c) ==
    /\ ~panicked /\ c \in 1..opened
    /\ sv' = [sv EXCEPT ![c] = destroy(@)]
    /\ closed' = closed \cup {c}
    /\ ret' = Returned("Close", c, 0, Nil)
    /\ UNCHANGED <<input, mem, rownum, opened, tables, panicked, trues>>

\* StructRows.Columns; ret.val is the number of names returned
Columns(c) ==
    /\ ~panicked /\ c \in 1..opened
    /\ IF isClosed(c)
       THEN /\ ret' = Returned("Columns", c, 0, errRowsClosed)
            /\ UNCHANGED <<input, mem, sv, rownum, opened, tables, panicked, closed, trues>>
       ELSE IF FieldsPanic(c) THEN Panic("Columns", c)
       ELSE /\ tables' = TablesAfterGetFields(c)
            /\ sv' = SvAfterGetFields(c)
            /\ ret' = Returned("Columns", c, Len(tables'[sv'[c].fields].byIndex), Nil)
            /\ UNCHANGED <<input, mem, rownum, opened, panicked, closed, trues>>

\* StructRows.Err: swap the error out when there is one
ErrRows(c) ==
    /\ ~panicked /\ c \in 1..opened
    /\ ret' = Returned("Err", c, 0, sv[c].Error)
    /\ sv' = [sv EXCEPT ![c].Error = Nil]
    /\ UNCHANGED <<input, mem, rownum, opened, tables, panicked, closed, trues>>

(***************************************************************************)
(* Field slots.  A slot is named by the table that holds it and its index  *)
(* there; a caller that once got it from Field may keep using it.          *)
(***************************************************************************)
Slot(b, i) == tables[b].byIndex[i + 1]

SlotExists(b, i) == tables[b].built /\ i \in 0..(Len(tables[b].byIndex) - 1)

\* the value a slot reads (f.value)
Read(b, i) == mem[Slot(b, i).addr][Slot(b, i).indexes]

\* StructField.CanSet
CanSet(b, i) == Slot(b, i).sf.exported /\ Addressable

\* StructField.Set(x) on slot i of table b.  FullName asks the owning
\* descriptor for its name, which panics once that descriptor is destroyed.
SetField(b, i, x) ==
    /\ ~panicked /\ SlotExists(b, i)
    /\ IF sv[Slot(b, i).Parent].value = NoAddr THEN Panic("Set", b)
       ELSE \E o \in Set(CanSet(b, i), Read(b, i), x) :
              /\ mem' = [mem EXCEPT ![Slot(b, i).addr][Slot(b, i).indexes] = o.val]
              /\ panicked' = o.panic
              /\ ret' = Returned("Set", b, i, o.err)
              /\ UNCHANGED <<input, sv, rownum, opened, tables, closed, trues>>

\* StructField.SetNil() on slot i of table b
SetNilField(b, i) ==
    /\ ~panicked /\ SlotExists(b, i)
    /\ IF sv[Slot(b, i).Parent].value = NoAddr THEN Panic("SetNil", b)
       ELSE \E o \in SetNil(CanSet(b, i), Read(b, i)) :
              /\ mem' = [mem EXCEPT ![Slot(b, i).addr][Slot(b, i).indexes] = o.val]
              /\ panicked' = o.panic
              /\ ret' = Returned("SetNil", b, i, o.err)
              /\ UNCHANGED <<input, sv, rownum, opened, tables, closed, trues>>

(***************************************************************************)
(* Spec: a descriptor over the shapes New accepts (and one it rejects) of  *)
(* Server records, its cursors and the slots reached through either.       *)
(***************************************************************************)
Shapes ==
    {<<"struct">>, <<"ptr", "struct">>, <<"ptr", "slice", "struct">>,
     <<"slice", "ptr", "struct">>, <<"slice", "int">>}

HasSequence(path) == \E i \in 1..Len(path) : path[i] \in {"slice", "array"}

LeafPaths(stype) == {Explode(stype)[i].Indexes : i \in 1..Len(Explode(stype))}

LeafType(stype, x) == (CHOOSE e \in {Explode(stype)[i] : i \in 1..Len(Explode(stype))} : e.Indexes = x).sf.ty

\* the records New is given: servers[a] = Server{Meta{id: a + 1}, Count: a + 5};
\* for an empty sequence, the zero record IndirectStruct synthesizes
ServerRecords(n) ==
    [a \in 0..(IF n = 0 THEN 0 ELSE n - 1) |->
       [x \in LeafPaths(Server) |->
          IF n = 0 THEN ZeroOf(LeafType(Server, x))
          ELSE IF x = <<1>> THEN Val("int8", a + 5, <<>>) ELSE Val("int8", a + 1, <<>>)]]

\* the state after New(dest)
InitWith(path, n, stype, records) ==
    /\ input = [path |-> path, n |-> n, stype |-> stype]
    /\ mem = records
    /\ sv = [d \in Descs |-> IF d = 0 THEN New(path).s
                                     ELSE ZeroStructValue]
    /\ ret = Returned("New", 0, 0, New(path).err)
    /\ rownum = [c \in Cursors |-> OutOfRange]
    /\ opened = 0
    /\ tables = NoTables
    /\ panicked = FALSE
    /\ closed = {}
    /\ trues = [c \in Cursors |-> 0]

Init ==
    \E path \in Shapes :
      \E n \in (IF HasSequence(path) THEN 0..MaxRows ELSE {1}) :
        InitWith(path, n, Server, ServerRecords(n))

CursorKeys == {KeyString("Count"), KeyInt(0)}

CursorInputs == {Val("int64", 50, <<>>)}

Step ==
    \/ \E d \in Descs : \E key \in CursorKeys : Field(d, key)
    \/ \E d \in Descs : Fields(d)
    \/ Err
    \/ Rows
    \/ \E c \in Cursors : Next(c)
    \/ \E c \in Cursors : Close(c)
    \/ \E c \in Cursors : Columns(c)
    \/ \E c \in Cursors : ErrRows(c)
    \/ \E b \in Descs : \E i \in 0..1 : \E x \in CursorInputs : SetField(b, i, x)

Spec == Init /\ [][Step]_vars

(***************************************************************************)
(* Properties of the row cursor, checked under Spec.                       *)
(***************************************************************************)
\* the slots of the table cursor c looks fields up in
SlotsOf(c) == 0..(Len(tables[sv[c].fields].byIndex) - 1)

\* every slot of cursor c's table reads the record at the cursor's position
BoundToRow(c) ==
    \A i \in SlotsOf(c) :
      /\ Slot(sv[c].fields, i).addr = rownum[c]
      /\ Read(sv[c].fields, i) = mem[rownum[c]][Slot(sv[c].fields, i).indexes]

\* C1: over a sequence of n records the k-th successful Next of a cursor
\* sets Index() to k-1 and binds every slot of the cursor's table to element
\* k-1 (a table the cursor built itself stays bound there until its next
\* Next); a Set through a slot writes the element the slot is bound to and
\* no other; Next returns true exactly while fewer than n calls returned
\* true, so n calls return true and the (n+1)-th returns false.
C1_NextBindsRow ==
    /\ [](\A c \in 1..opened :
            /\ trues[c] = rownum[c] + 1
            /\ trues[c] <= RowsLen
            /\ ~isClosed(c) =>
                 /\ Index(c) = trues[c] - 1
                 /\ (/\ trues[c] > 0
                     /\ sv[c].fields # NoTable
                     /\ \/ sv[c].fields = c
                        \/ ret.op = "Next" /\ ret.who = c /\ ret.val = 1)
                    => sv[c].value = trues[c] - 1 /\ BoundToRow(c))
    /\ [][/\ \A c \in Cursors :
               (ret'.op = "Next" /\ Next(c))
                 => (ret'.val = 1 <=> (~isClosed(c) /\ trues[c] < RowsLen))
          /\ \A b \in Descs : \A i \in 0..1 : \A x \in CursorInputs :
               (ret'.op = "Set" /\ ~panicked' /\ SetField(b, i, x)) =>
                 /\ \A a \in DOMAIN mem : \A p \in DOMAIN mem[a] :
                      (a # Slot(b, i).addr \/ p # Slot(b, i).indexes)
                        => mem'[a][p] = mem[a][p]
                 /\ ret'.err = Nil => Read(b, i)'.n = x.n]_vars

\* the last record was reached through a table the cursor built, written
\* through its slot, and the call of Next after it returned false
C1_Witness ==
    \E c \in 1..opened :
      /\ RowsLen >= 2 /\ trues[c] = RowsLen /\ ~isClosed(c)
      /\ sv[c].fields = c
      /\ mem[RowsLen - 1][<<1>>].n = 50 /\ mem[0][<<1>>].n = 5
      /\ ret.op = "Next" /\ ret.who = c /\ ret.val = 0

\* C2: once Close was called on a cursor, Index, Len and MaxRow are -1,
\* Next returns false, Columns fails with "struct rows are closed", Close
\* returns nil, and a further Close changes nothing.
C2_ClosedAbsorbing ==
    /\ [](\A c \in closed :
            /\ isClosed(c)
            /\ Index(c) = -1 /\ LenRows(c) = -1 /\ MaxRow(c) = -1
            /\ (ret.who = c /\ ret.op = "Next") => ret.val = 0
            /\ (ret.who = c /\ ret.op = "Columns") => ret.err = NewError("struct rows are closed")
            /\ (ret.who = c /\ ret.op = "Close") => ret.err = Nil)
    /\ [][\A c \in closed :
            (ret'.op = "Close" /\ Close(c))
              => UNCHANGED <<input, mem, sv, rownum, opened, tables, closed, trues>>]_vars

\* a cursor that had reached a record was closed and Next called on it
C2_Witness ==
    \E c \in closed :
      rownum[c] >= 0 /\ ret.op = "Next" /\ ret.who = c /\ ret.val = 0

\* C3: Rows on a descriptor that is not over a sequence fails with
\* "structs not found", on one over a sequence of length 0 with "struct rows
\* not found", and in every other case returns a cursor whose Index() is -1
\* and no error.
C3_Rows ==
    ret.op = "Rows" =>
      IF ~HasSequence(input.path)
      THEN ret.who = 0 /\ ret.err = NewError("structs not found")
      ELSE IF input.n = 0
      THEN ret.who = 0 /\ ret.err = NewError("struct rows not found")
      ELSE ret.who = opened /\ ret.who > 0 /\ ret.err = Nil /\ Index(ret.who) = -1

\* Rows returned a cursor over a sequence of two records or more
C3_Witness ==
    ret.op = "Rows" /\ ret.who = 1 /\ input.n >= 2 /\ IsValid(sv[1])

\* C4: a call of Next that returns false leaves the cursor closed: Index()
\* is -1 and Columns would fail.
C4_ExhaustionCloses ==
    \A c \in 1..opened :
      (ret.op = "Next" /\ ret.who = c /\ ret.val = 0) =>
        isClosed(c) /\ Index(c) = -1

\* C5: Next and Close on a cursor leave the descriptor it came from as it
\* was, its record and what its slots read; no call on that descriptor
\* changes a cursor's position or the row the cursor's slots read.
C5_CursorIndependent ==
    [][/\ \A c \in Cursors :
            (Next(c) \/ Close(c)) =>
              /\ sv'[0] = sv[0]
              /\ tables[0].built =>
                   \A i \in 0..(Len(tables[0].byIndex) - 1) : Read(0, i)' = Read(0, i)
       /\ ((\E key \in CursorKeys : Field(0, key)) \/ Fields(0) \/ Err \/ Rows) =>
            \A c \in 1..opened :
              /\ rownum'[c] = rownum[c]
              /\ sv'[c] = sv[c]
              /\ sv[c].fields # NoTable => tables'[sv[c].fields] = tables[sv[c].fields]]_vars

(***************************************************************************)
(* SpecField: lookups with every kind of key, on the descriptor and on its *)
(* first cursor, and the pending error they stage.                         *)
(***************************************************************************)
FieldKeys ==
    {KeyNil, KeyOther, KeyInt(-1), KeyInt(1), KeyInt(2),
     KeyString("Count"), KeyString("Nope")}

FieldDescs == 0..1

FieldShapes == {<<"struct">>, <<"ptr", "slice", "struct">>, <<"slice", "int">>}

InitField ==
    \E path \in FieldShapes :
      \E n \in (IF HasSequence(path) THEN 0..MaxRows ELSE {1}) :
        InitWith(path, n, Server, ServerRecords(n))

StepField ==
    \/ \E d \in FieldDescs : \E key \in FieldKeys : Field(d, key)
    \/ Err
    \/ Rows
    \/ Next(1)
    \/ Close(1)
    \/ ErrRows(1)

SpecField == InitField /\ [][StepField]_vars

\* the error a failed lookup with this key stages
LookupError(key) ==
    CASE key.t = "nil" -> NewError("invalid nil argument")
      [] key.t = "int" -> [msg |-> "invalid field index", name |-> "", idx |-> key.i]
      [] key.t = "string" -> [msg |-> "invalid field name", name |-> key.n, idx |-> 0]
      [] OTHER -> NewError("invalid argument type")

\* C6: the pending error is one slot: Err returns what is pending and
\* leaves the slot empty, on the descriptor and on a cursor, so an Err that
\* follows an Err returns nil; a lookup that fails replaces whatever error
\* was pending with its own.
C6_PendingError ==
    /\ [](ret.op = "Err" => sv[ret.who].Error = Nil)
    /\ [][/\ (ret'.op = "Err" /\ Err) => ret'.err = sv[0].Error
          /\ \A c \in Cursors : (ret'.op = "Err" /\ ErrRows(c)) => ret'.err = sv[c].Error
          /\ (ret.op = "Err" /\ ret'.op = "Err" /\ ret'.who = ret.who) => ret'.err = Nil
          /\ \A d \in FieldDescs : \A key \in FieldKeys :
               (ret'.op = "Field" /\ ret'.val = OutOfRange /\ ~panicked' /\ Field(d, key))
                 => sv'[d].Error = LookupError(key)]_vars

\* the cursor's Err returned the error of a failed lookup by index
C6_Witness ==
    /\ ret.op = "Err" /\ ret.who = 1
    /\ ret.err = [msg |-> "invalid field index", name |-> "", idx |-> 2]
    /\ sv[1].Error = Nil /\ IsValid(sv[1])

\* the number of fields and the index of a name in the field table of the
\* record type
NumFieldOf(stype) == Len(Explode(stype))

IndexOfName(stype, n) ==
    IF \E i \in 1..NumFieldOf(stype) : Explode(stype)[i].sf.name = n
    THEN (CHOOSE i \in 1..NumFieldOf(stype) : Explode(stype)[i].sf.name = n) - 1
    ELSE OutOfRange

\* C7: Field(key) never panics; it returns the slot and stages nothing for
\* an index in 0..NumField()-1 or a name of the table, and otherwise returns
\* the nil slot and stages the error of the key: "invalid field index <i>",
\* "invalid field name <n>", "invalid nil argument" or "invalid argument
\* type"; it never changes a record nor a field table already built.
C7_FieldNeverRaises ==
    [][\A d \in FieldDescs : \A key \in FieldKeys :
         Field(d, key) =>
           LET f == CASE key.t = "int" ->
                           IF key.i \in 0..(NumFieldOf(input.stype) - 1)
                           THEN key.i ELSE OutOfRange
                      [] key.t = "string" -> IndexOfName(input.stype, key.n)
                      [] OTHER -> OutOfRange
           IN  /\ ~panicked'
               /\ ret'.val = f
               /\ sv'[d].Error = IF f = OutOfRange THEN LookupError(key) ELSE sv[d].Error
               /\ mem' = mem
               /\ \A t \in Descs : tables[t].built => tables'[t] = tables[t]]_vars

\* the same, for a descriptor that holds a record
C7_FieldOnValid ==
    [][\A d \in FieldDescs : \A key \in FieldKeys :
         (Field(d, key) /\ IsValid(sv[d])) =>
           LET f == CASE key.t = "int" ->
                           IF key.i \in 0..(NumFieldOf(input.stype) - 1)
                           THEN key.i ELSE OutOfRange
                      [] key.t = "string" -> IndexOfName(input.stype, key.n)
                      [] OTHER -> OutOfRange
           IN  /\ ~panicked'
               /\ ret'.val = f
               /\ sv'[d].Error = IF f = OutOfRange THEN LookupError(key) ELSE sv[d].Error
               /\ mem' = mem
               /\ \A t \in Descs : tables[t].built => tables'[t] = tables[t]]_vars

(***************************************************************************)
(* SpecSet: Set on the one field of a record  type Box struct { V T }, for *)
(* the slot types T below, reached through a pointer to the record (the    *)
(* slot is settable) or through a copy of it (it is not).                  *)
(***************************************************************************)
Box(t) == <<Decl("V", t)>>

SetTypes ==
    {Ty("int8"), Ty("int64"), Ty("uint8"), Ty("float32"), Ty("float64"),
     Ty("complex64"), Ty("bool"), Ty("string"), Ty("bytes"), Ty("time"),
     Ty("duration"), Ty("error"), Ty("any"), Ty("map"), Ty("struct"),
     PtrTy("int8"), PtrTy("float32"), PtrTy("string"), PtrTy("bool")}

SetShapes == {<<"ptr", "struct">>, <<"struct">>}

Text(s) == Val("string", 0, s)

SetInputs ==
    {Val("int64", n, <<>>) : n \in {-129, -1, 0, 1, 127, 128, 300}}
    \cup {Val("int8", 7, <<>>), Val("bool", 1, <<>>)}
    \cup {Val("uint64", n, <<>>) : n \in {0, 1, 255, 256}}
    \cup {Val("float64", h, <<>>) : h \in {-3, 2, 3, 600, HugeFloat}}
    \cup {[Val("complex128", 2, <<>>) EXCEPT !.m = 3],
          [Val("complex128", HugeFloat, <<>>) EXCEPT !.m = 3]}
    \cup {Text(<<"a">>), Text(<<"1">>),
          Text(<<"2", "0", "2", "1", "-", "0", "1", "-", "0", "5">>)}
    \cup {Val("bytes", 0, <<"a">>), Val("time", 5, <<>>), Val("duration", 3, <<>>),
          PointerTo(Val("errorString", 0, <<"e">>)), PointerTo(Val("int8", 9, <<>>)), NilDest}

\* a float64 above math.MaxFloat32 is given to float and complex slots only:
\* its conversion to an integer is not defined by the language
Offered(x) ==
    /\ SlotExists(0, 0)
    /\ (x.k = "float64" /\ Abs(x.n) = HugeFloat) => Read(0, 0).k \in {"float32", "float64"}

InitSet ==
    \E path \in SetShapes : \E t \in SetTypes :
      InitWith(path, 1, Box(t), [a \in {0} |-> [x \in LeafPaths(Box(t)) |-> ZeroOf(t)]])

StepSet ==
    \/ Fields(0)
    \/ \E x \in SetInputs : Offered(x) /\ SetField(0, 0, x)
    \/ SetNilField(0, 0)

SpecSet == InitSet /\ [][StepSet]_vars

\* C8: a Set that returns an error leaves the stored value of the slot as
\* it was, whatever the slot type, a nil pointer included.
C8_ErrorLeavesValue ==
    [][\A x \in SetInputs :
         (Offered(x) /\ SetField(0, 0, x) /\ ~panicked' /\ ret'.err # Nil)
           => mem' = mem]_vars

\* the same, for every slot that is not a nil pointer before the call
C8_ErrorLeavesNonNil ==
    [][\A x \in SetInputs :
         (Offered(x) /\ SetField(0, 0, x) /\ ~panicked' /\ ret'.err # Nil
            /\ ~(Read(0, 0).p /\ Read(0, 0).pnil))
           => mem' = mem]_vars

\* an input whose value the pointee type of slot value cur holds as it is
HoldsAsIs(cur, x) ==
    /\ x # NilDest /\ ~x.p /\ ~x.nil
    /\ \/ x.k = cur.k
       \/ cur.k = "int8" /\ x.k = "int64" /\ x.n \in -128..127
       \/ cur.k = "float32" /\ x.k = "float64" /\ Abs(x.n) < HugeFloat

Yields(k, x) ==
    IF k \in {"float32", "float64"}
    THEN IF CanFloat(x) THEN x.n ELSE 2 * x.n
    ELSE IF CanFloat(x) THEN (IF x.n >= 0 THEN x.n \div 2 ELSE -((-x.n) \div 2))
    ELSE x.n

Holds(k, n) ==
    CASE k = "int8" -> n \in -128..127
      [] k = "uint8" -> n \in 0..255
      [] k \in {"float32", "complex64"} -> Abs(n) < HugeFloat
      [] OTHER -> TRUE

\* the inputs the rule of a numeric slot of kind k lists
Listed(k, x) ==
    CASE k \in {"int8", "int64"} -> CanInt(x) \/ CanBool(x) \/ CanFloat(x)
      [] k = "uint8" -> CanUint(x) \/ CanBool(x) \/ CanFloat(x)
      [] k \in {"float32", "float64"} -> CanFloat(x) \/ CanInt(x) \/ CanUint(x)
      [] k = "complex64" -> CanComplex(x)
      [] OTHER -> FALSE

\* C10: on a signed, unsigned, float or complex slot, a Set from a listed
\* numeric input stores exactly the number the conversion rule yields when
\* the slot's width holds it, and fails with "could not represent" when not.
C10_NoSilentTruncation ==
    [][\A x \in SetInputs :
         (/\ Offered(x) /\ SetField(0, 0, x)
          /\ CanSet(0, 0) /\ ~Read(0, 0).p /\ Listed(Read(0, 0).k, x))
           => LET k == Read(0, 0).k
              IN  IF Holds(k, Yields(k, x)) /\ (k = "complex64" => Holds(k, x.m))
                  THEN /\ ret'.err = Nil
                       /\ Read(0, 0)'.n = Yields(k, x)
                       /\ k = "complex64" => Read(0, 0)'.m = x.m
                  ELSE /\ ret'.err = NewError("could not represent")
                       /\ mem' = mem]_vars

\* the same, for the inputs of the slot's own family
C10_SameFamily ==
    [][\A x \in SetInputs :
         (/\ Offered(x) /\ SetField(0, 0, x)
          /\ CanSet(0, 0) /\ ~Read(0, 0).p /\ Listed(Read(0, 0).k, x)
          /\ (CanFloat(x) => CanFloat(Read(0, 0))))
           => LET k == Read(0, 0).k
              IN  IF Holds(k, Yields(k, x)) /\ (k = "complex64" => Holds(k, x.m))
                  THEN /\ ret'.err = Nil
                       /\ Read(0, 0)'.n = Yields(k, x)
                       /\ k = "complex64" => Read(0, 0)'.m = x.m
                  ELSE /\ ret'.err = NewError("could not represent")
                       /\ mem' = mem]_vars

(***************************************************************************)
(* The conversion table of Set, as the specification lists it: categories  *)
(* of slots and inputs, and the pairs that convert.                        *)
(***************************************************************************)
\* the categories a value of type t belongs to; a duration is a signed
\* integer as well
Categories(t) ==
    IF t.p THEN (IF t.k = "errorString" THEN {"error"} ELSE {})
    ELSE CASE t.k = "time" -> {"timestamp"}
           [] t.k = "duration" -> {"duration", "signed"}
           [] t.k = "error" -> {"error"}
           [] t.k = "string" -> {"string"}
           [] t.k = "bool" -> {"bool"}
           [] t.k \in {"int8", "int64"} -> {"signed"}
           [] t.k \in {"uint8", "uint64"} -> {"unsigned"}
           [] t.k \in {"float32", "float64"} -> {"float"}
           [] t.k \in {"complex64", "complex128"} -> {"complex"}
           [] t.k = "bytes" -> {"bytes"}
           [] OTHER -> {}

\* the category that decides the rule of a slot: the first in the order of
\* the table
SlotCategory(t) ==
    IF "duration" \in Categories(t) THEN "duration"
    ELSE IF Categories(t) = {} THEN "none"
    ELSE CHOOSE c \in Categories(t) : TRUE

ListedInputs(c) ==
    CASE c = "timestamp" -> {"timestamp", "string"}
      [] c = "duration" -> {"duration", "string", "signed", "unsigned", "float"}
      [] c = "error" -> {"error", "string"}
      [] c = "string" -> {"string", "bool", "signed", "unsigned", "float", "bytes", "timestamp"}
      [] c = "bool" -> {"bool", "string", "signed", "unsigned"}
      [] c = "signed" -> {"signed", "bool", "float"}
      [] c = "unsigned" -> {"unsigned", "bool", "float"}
      [] c = "float" -> {"float", "signed", "unsigned"}
      [] c = "complex" -> {"complex"}
      [] c = "bytes" -> {"bytes", "string"}
      [] OTHER -> {}

\* the type Set converts into: the pointee of a pointer slot when the input
\* is not a pointer, the slot's own type otherwise
TargetType(cur, x) == IF cur.p /\ ~x.p THEN Ty(cur.k) ELSE TypeOf(cur)

ListedPair(cur, x) ==
    Categories(TypeOf(x)) \cap ListedInputs(SlotCategory(TargetType(cur, x))) # {}

\* a Set of a non-nil input that is not directly assignable, on a settable
\* slot, that returned
Converting(x) ==
    /\ Offered(x) /\ x # NilDest /\ CanSet(0, 0) /\ ~AssignableTo(Read(0, 0), x)
    /\ SetField(0, 0, x) /\ ~panicked'

\* C11: the conversion table is closed: a Set of a non-nil, not directly
\* assignable input on a settable slot returns the "wrong kind of value"
\* error exactly when the pair (slot category, input category) is not listed.
C11_TableClosed ==
    [][\A x \in SetInputs :
         Converting(x) => (ListedPair(Read(0, 0), x) <=> ret'.err # errWrongKind)]_vars

\* the same, for every slot whose target is not a bool
C11_TableClosedButBool ==
    [][\A x \in SetInputs :
         (Converting(x) /\ SlotCategory(TargetType(Read(0, 0), x)) # "bool")
           => (ListedPair(Read(0, 0), x) <=> ret'.err # errWrongKind)]_vars

\* C12: on a settable bool slot, a Set from a signed or unsigned integer
\* stores true for 1 and false for 0, and for any other integer leaves the
\* slot unchanged and returns no error.
C12_BoolFromInteger ==
    [][\A x \in SetInputs :
         (/\ Offered(x) /\ CanSet(0, 0) /\ TypeOf(Read(0, 0)) = Ty("bool")
          /\ TypeOf(x) \in {Ty("int8"), Ty("int64"), Ty("uint64")}
          /\ SetField(0, 0, x))
           => /\ ~panicked'
              /\ ret'.err = Nil
              /\ Read(0, 0)'.n = (IF x.n \in {0, 1} THEN x.n ELSE Read(0, 0).n)]_vars

\* the kinds of slot that hold nil
HoldsNil(t) == t.p \/ t.k \in {"bytes", "map", "error", "any", "func", "chan", "slice"}

IsNilValue(v) == IF v.p THEN v.pnil ELSE v.nil

\* C13: Set(nil) and SetNil() answer alike: the not-settable error on an
\* unsettable slot; the not-nillable error, the value unchanged, on a
\* settable slot whose kind holds no nil; and on a settable slot whose kind
\* holds nil, no error and the nil zero value stored.
C13_SetNil ==
    [][(/\ ret'.op \in {"Set", "SetNil"}
        /\ SetNilField(0, 0) \/ (Offered(NilDest) /\ SetField(0, 0, NilDest)))
         => /\ ~panicked'
            /\ IF ~CanSet(0, 0) THEN ret'.err = ErrNotSettable /\ mem' = mem
               ELSE IF ~HoldsNil(TypeOf(Read(0, 0)))
                    THEN ret'.err = ErrNotNillable /\ mem' = mem
                    ELSE /\ ret'.err = Nil
                         /\ IsNilValue(Read(0, 0)')
                         /\ TypeOf(Read(0, 0)') = TypeOf(Read(0, 0))]_vars

\* an int8 slot still stores 127 after Set(nil) refused it
C13_Witness ==
    /\ input.stype = Box(Ty("int8")) /\ SlotExists(0, 0)
    /\ ret.op = "Set" /\ ret.err = ErrNotNillable /\ ~panicked
    /\ Read(0, 0) = Val("int8", 127, <<>>)

\* a byte slice that was set is nil again after SetNil
C13_Cleared ==
    /\ input.stype = Box(Ty("bytes")) /\ SlotExists(0, 0)
    /\ ret.op = "SetNil" /\ ret.err = Nil /\ IsNilValue(Read(0, 0))

(***************************************************************************)
(* SpecNew: New on every input type made of up to MaxWrap pointer and      *)
(* slice wrappers around a record, an int or a map, and on the untyped     *)
(* nil; then the queries of the descriptor it returned.                    *)
(***************************************************************************)
MaxWrap == 4

Wrappers == UNION {[1..k -> {"ptr", "slice"}] : k \in 0..MaxWrap}

Terminals == {"struct", "int", "map"}

NewPaths == {w \o <<t>> : w \in Wrappers, t \in Terminals} \cup {<<>>}

NewKeys == {KeyInt(0), KeyString("Count"), KeyNil}

InitNew == \E path \in NewPaths : InitWith(path, 1, Server, ServerRecords(1))

StepNew ==
    \/ Err
    \/ IsValidCall(0)
    \/ Name(0)
    \/ NumField(0)
    \/ Fields(0)
    \/ \E key \in NewKeys : Field(0, key)

SpecNew == InitNew /\ [][StepNew]_vars

\* the wrappers of the input type and the kind they wrap
WrappersOf(path) == SubSeq(path, 1, Len(path) - 1)

TerminalOf(path) == path[Len(path)]

\* the shapes the specification lists
ListedShapes ==
    {<<"struct">>, <<"ptr", "struct">>, <<"slice", "struct">>,
     <<"ptr", "slice", "struct">>, <<"slice", "ptr", "struct">>}

\* C14: New succeeds exactly for the five listed shapes: a record, a pointer
\* to one, a sequence of them, a pointer to a sequence of them, a sequence
\* of pointers to them; every other wrapper shape is rejected with an error.
C14_ExactlyListed ==
    (ret.op = "New" /\ input.path # <<>>)
      => (ret.err = Nil <=> input.path \in ListedShapes)

\* the listed shapes are accepted, and nothing but a record is
C14_ListedAccepted ==
    (ret.op = "New" /\ input.path # <<>>)
      => /\ input.path \in ListedShapes => (ret.err = Nil /\ IsValid(sv[0]))
         /\ TerminalOf(input.path) # "struct" => (ret.err # Nil /\ ~IsValid(sv[0]))

\* C15: the resolver unwraps at most three wrappers when it succeeds; an
\* input wrapped deeper fails with the "not found after N indirect lookups"
\* error that lists the kinds seen; the shape path never has more than four
\* entries.
C15_LookupBound ==
    /\ \A d \in Descs : Len(sv[d].kinds) <= 4
    /\ (ret.op = "New" /\ input.path # <<>>)
         => /\ ret.err = Nil => Len(WrappersOf(input.path)) <= 3
            /\ Len(WrappersOf(input.path)) > 3
                 => /\ ret.err.msg = "struct not found after indirect lookups; kinds so far"
                    /\ ret.err.idx = 4
                    /\ ret.err.name =
                         input.path[1] \o "," \o input.path[2] \o "," \o input.path[3]
                           \o "," \o input.path[4]
                    /\ sv[0].kinds = SubSeq(input.path, 1, 4)

\* a record behind four wrappers was not found
C15_Witness ==
    /\ ret.op = "New" /\ input.path = <<"ptr", "slice", "ptr", "ptr", "struct">>
    /\ ret.err.idx = 4 /\ ret.err.name = "ptr,slice,ptr,ptr"

\* a record behind three wrappers was found
C15_Deepest ==
    /\ ret.op = "New" /\ input.path = <<"ptr", "slice", "ptr", "struct">>
    /\ ret.err = Nil /\ IsValid(sv[0])

\* C16: New returns its failure directly: for nil, no descriptor and the
\* "invalid concrete value" error; for a map, channel or function, the
\* "unsupported pointer to a struct" error; for any other terminal that is
\* not a record, the "is not a pointer" error; and the descriptor it returns
\* has no error pending.
C16_NewReturnsError ==
    ret.op = "New"
      => IF input.path = <<>>
         THEN /\ ~Exists(0)
              /\ ret.err.msg = "invalid concrete value; want: struct or ptr or slice, got: <nil>"
         ELSE /\ sv[0].Error = Nil
              /\ Len(WrappersOf(input.path)) <= 3
                   => CASE TerminalOf(input.path) \in {"map", "chan", "func"} ->
                             /\ ret.err.msg = "is an unsupported pointer to a struct"
                             /\ ret.err.name = TerminalOf(input.path)
                        [] TerminalOf(input.path) = "struct" -> ret.err = Nil
                        [] OTHER ->
                             /\ ret.err.msg = "is not a pointer"
                             /\ ret.err.name = TerminalOf(input.path)

\* New of a pointer to a map returned the error and left none pending
C16_Witness ==
    /\ ret.op = "New" /\ input.path = <<"ptr", "map">>
    /\ ret.err.msg = "is an unsupported pointer to a struct" /\ sv[0].Error = Nil

\* New(nil) returned no descriptor
C16_NilWitness == ret.op = "New" /\ input.path = <<>> /\ ret.err # Nil

\* C17: IsValid is true exactly when the last kind of the shape path is the
\* record kind, and a descriptor that is not valid answers Field, Fields,
\* NumField and Name without panicking.
C17_InvalidAnswers ==
    [][/\ ret'.op = "IsValid" => (ret'.val = 1 <=> (/\ sv[ret'.who].kinds # <<>>
                                                     /\ TerminalOf(sv[ret'.who].kinds) = "struct"))
       /\ \A d \in Descs :
            (/\ ret'.op \in {"Field", "Fields", "NumField", "Name"} /\ ret'.who = d
             /\ Exists(d) /\ ~IsValid(sv[d]))
              => ~panicked']_vars

\* what IsValid answers agrees with what New returned
C17_IsValidIff ==
    [][ret'.op = "IsValid" => (ret'.val = 1 <=> (/\ sv[ret'.who].kinds # <<>>
                                                  /\ TerminalOf(sv[ret'.who].kinds) = "struct"
                                                  /\ sv[ret'.who].value # NoAddr))]_vars

(***************************************************************************)
(* SpecFlat: the field table of a record type, over the record types of up *)
(* to MaxFields fields each of which is a named int8, an embedded error    *)
(* interface or an embedded record of such fields, and over the record     *)
(* types of the tests.                                                     *)
(***************************************************************************)
MaxFields == 2

FieldNames == <<"A", "B", "C", "D">>

AnonError == [name |-> "error", anon |-> TRUE, exported |-> FALSE, ty |-> Ty("error"), sub |-> <<>>]

\* the record type whose j-th field is opts[j], the named fields taking the
\* name of their place
Named(opts) ==
    [j \in 1..Len(opts) |-> IF opts[j].anon THEN opts[j] ELSE [opts[j] EXCEPT !.name = FieldNames[j]]]

ScalarFields == {Decl("", Ty("int8")), AnonError}

FlatRecords == {Named(o) : o \in UNION {[1..k -> ScalarFields] : k \in 1..MaxFields}}

NestedRecords ==
    {Named(o) : o \in UNION {[1..k -> ScalarFields \cup {Embedded("T", r) : r \in FlatRecords}] :
                               k \in 1..MaxFields}}

\* TestFieldInvalidArg: seven named fields, then the embedded T2
T2 == <<Decl("String", Ty("string")), Decl("PtrInt", PtrTy("int8"))>>

T1 ==
    <<Decl("A", Ty("string")), Decl("B", PtrTy("int8")), Decl("C", Ty("bool")),
      Decl("D", Ty("duration")), Decl("E", Ty("error")), Decl("T", Ty("time")),
      Decl("V", Ty("struct")), Embedded("T2", T2)>>

\* ExampleStructField_IsAnonymous: five named fields, then the embedded error
AnonServer ==
    <<Decl("Name", Ty("string")), Decl("ID", Ty("uint64")), Decl("Enabled", Ty("bool")),
      Decl("Count", Ty("int8")), Decl("Password", Ty("string")), AnonError>>

\* a record embedded in a record embedded in a record
Deep ==
    <<Decl("A", Ty("int8")),
      Embedded("M", <<Decl("B", Ty("int8")), Embedded("I", <<Decl("C", Ty("int8"))>>),
                      Decl("D", Ty("int8"))>>),
      Decl("E", Ty("int8"))>>

FlatTypes == NestedRecords \cup {T1, AnonServer, Deep, Server}

FlatKeys == {KeyInt(0), KeyInt(5), KeyInt(7), KeyString("A"), KeyString("String")}

InitFlat ==
    \E t \in FlatTypes :
      InitWith(<<"ptr", "struct">>, 1, t, [a \in {0} |-> [x \in LeafPaths(t) |-> ZeroOf(LeafType(t, x))]])

StepFlat ==
    \/ Fields(0)
    \/ NumField(0)
    \/ \E key \in FlatKeys : Field(0, key)
    \/ Err

SpecFlat == InitFlat /\ [][StepFlat]_vars

\* the declared field an index path leads to, through embedded records only
RECURSIVE Leads(_, _)
Leads(fields, x) ==
    /\ x # <<>> /\ Head(x) + 1 \in 1..Len(fields)
    /\ LET sf == fields[Head(x) + 1]
       IN  IF Len(x) = 1 THEN TRUE
           ELSE sf.anon /\ sf.ty = Ty("struct") /\ Leads(sf.sub, Tail(x))

RECURSIVE DeclaredAt(_, _)
DeclaredAt(fields, x) ==
    IF Len(x) = 1 THEN fields[Head(x) + 1] ELSE DeclaredAt(fields[Head(x) + 1].sub, Tail(x))

\* the index paths over a record type, to its depth and width
RECURSIVE Depth(_)
Depth(fields) ==
    LET below == {Depth(fields[j].sub) : j \in {j \in 1..Len(fields) : fields[j].sub # <<>>}}
    IN  1 + (IF below = {} THEN 0 ELSE CHOOSE m \in below : \A o \in below : o <= m)

RECURSIVE Width(_)
Width(fields) ==
    LET below == {Width(fields[j].sub) : j \in 1..Len(fields)} \cup {Len(fields)}
    IN  CHOOSE m \in below : \A o \in below : o <= m

PathsOver(fields) ==
    {x \in UNION {[1..k -> 0..(Width(fields) - 1)] : k \in 1..Depth(fields)} : Leads(fields, x)}

\* declaration order, depth first: the order of index paths by their first
\* difference
Before(x, y) ==
    \E k \in 1..Len(x) :
      /\ k <= Len(y) /\ x[k] < y[k]
      /\ \A j \in 1..(k - 1) : x[j] = y[j]

IsEmbeddedRecord(sf) == sf.anon /\ sf.ty = Ty("struct")

\* C18: the field table holds the positions 0..n-1 without gap or duplicate,
\* in declaration order depth first: every field that is not anonymous has an
\* entry whose address path is the chain of local indices leading to it, the
\* fields of an embedded record stand at the place of the embedding field,
\* and the embedding field itself has no entry.
C18_Flattening ==
    \A d \in Descs :
      tables[d].built =>
        LET tab == tables[d].byIndex
            visible == {x \in PathsOver(input.stype) : ~DeclaredAt(input.stype, x).anon}
        IN  /\ \A i \in 1..Len(tab) : tab[i].index = i - 1
            /\ \A i \in 1..Len(tab) :
                 /\ Leads(input.stype, tab[i].indexes)
                 /\ tab[i].sf = DeclaredAt(input.stype, tab[i].indexes)
                 /\ ~IsEmbeddedRecord(tab[i].sf)
            /\ \A i, j \in 1..Len(tab) : i < j => Before(tab[i].indexes, tab[j].indexes)
            /\ visible \subseteq {tab[i].indexes : i \in 1..Len(tab)}

\* String, the first field of the embedded T2, stands at position 7
C18_Witness ==
    /\ input.stype = T1 /\ tables[0].built
    /\ ret.op = "Field" /\ ret.val = 7
    /\ Slot(0, 7).name = "String" /\ Slot(0, 7).indexes = <<7, 0>>

\* the fields of a record embedded twice stand between their neighbours
C18_DeepWitness ==
    /\ input.stype = Deep /\ tables[0].built
    /\ [i \in 1..Len(tables[0].byIndex) |-> tables[0].byIndex[i].indexes]
         = <<<<0>>, <<1, 0>>, <<1, 1, 0>>, <<1, 2>>, <<2>>>>

\* C19: an anonymous field whose type is not a record keeps one entry, at
\* the place of its declaration, that reports itself anonymous: no declared
\* field is lost.
C19_AnonymousKept ==
    \A d \in Descs :
      tables[d].built =>
        LET tab == tables[d].byIndex
            kept == {x \in PathsOver(input.stype) : ~IsEmbeddedRecord(DeclaredAt(input.stype, x))}
        IN  /\ kept = {tab[i].indexes : i \in 1..Len(tab)}
            /\ \A i \in 1..Len(tab) : tab[i].sf = DeclaredAt(input.stype, tab[i].indexes)
            /\ \A i, j \in 1..Len(tab) : i < j => Before(tab[i].indexes, tab[j].indexes)

\* the same, for the record types that embed nothing but records
C19_NamedKept ==
    \A d \in Descs :
      (tables[d].built /\ \A x \in PathsOver(input.stype) :
                             DeclaredAt(input.stype, x).anon => IsEmbeddedRecord(DeclaredAt(input.stype, x)))
        => {x \in PathsOver(input.stype) : ~IsEmbeddedRecord(DeclaredAt(input.stype, x))}
             = {tables[d].byIndex[i].indexes : i \in 1..Len(tables[d].byIndex)}

\* a slot but for the record it is bound to
Unbound(f) == [f EXCEPT !.addr = NoAddr]

SameSlots(t) ==
    /\ tables'[t].built = tables[t].built
    /\ tables'[t].byName = tables[t].byName
    /\ Len(tables'[t].byIndex) = Len(tables[t].byIndex)
    /\ \A i \in 1..Len(tables[t].byIndex) :
         Unbound(tables'[t].byIndex[i]) = Unbound(tables[t].byIndex[i])

\* C20: Next rebinds in place: across a call of Next every table has the
\* same slots with the same position, name and address path, and no table
\* is built; only the record a slot is bound to changes.  A table, once
\* built, is never built again.
C20_RebindInPlace ==
    [][\/ tables' = tables
       \/ /\ \A c \in Cursors :
               (ret'.op = "Next" /\ ret'.who = c /\ Next(c)) => \A t \in Descs : SameSlots(t)
          /\ \A t \in Descs : tables[t].built => SameSlots(t)]_vars

\* the second Next of a cursor has bound the slots of a table built before it
\* to the second record
C20_Witness ==
    \E c \in 1..opened :
      /\ ret.op = "Next" /\ ret.who = c /\ ret.val = 1 /\ trues[c] = 2
      /\ sv[c].fields # NoTable /\ tables[sv[c].fields].built
      /\ Slot(sv[c].fields, 1).addr = 1
      /\ Slot(sv[c].fields, 1).index = 1 /\ Slot(sv[c].fields, 1).indexes = <<1>>

\* the table of descriptor d answers a lookup by the name of each of its
\* slots with that slot
NamesFindSlots(d) ==
    LET tab == tables[d]
    IN  /\ \A i \in 1..Len(tab.byIndex) :
             /\ tab.byIndex[i].name \in DOMAIN tab.byName
             /\ getFieldByName(tab, tab.byIndex[i].name) = getFieldByIndex(tab, i - 1)
        /\ {tab.byName[n] : n \in DOMAIN tab.byName} = {i - 1 : i \in 1..Len(tab.byIndex)}

UniqueNames(d) ==
    \A i, j \in 1..Len(tables[d].byIndex) :
      i # j => tables[d].byIndex[i].name # tables[d].byIndex[j].name

\* C21: after flattening the table by index and the table by name agree:
\* names are unique keys, both hold the same slots, and Field(Field(i).Name())
\* is Field(i) for every position i, also when an embedded record declares a
\* field named like an outer one.
C21_TablesAgree ==
    \A d \in Descs : tables[d].built => (UniqueNames(d) /\ NamesFindSlots(d))

\* the same, for the record types whose flattened names differ
C21_AgreeWhenUnique ==
    \A d \in Descs : (tables[d].built /\ UniqueNames(d)) => NamesFindSlots(d)

(***************************************************************************)
(* StructField.Equal.                                                      *)
(***************************************************************************)
\* utils.CanStruct: a record that is not a timestamp, or a pointer to one
CanStruct(v) == v.k = "struct" /\ (v.p => ~v.pnil)

\* reflect.DeepEqual of the two values as interfaces: same type, same content
DeepEqual(v, x) == v = x

Answer(b) == [eq |-> b, panic |-> FALSE]

\* StructField.equal, as the bool Equal makes of it: v is the value of the
\* receiver, x the value of the other slot.  utils.Error of a nil error is
\* nil, and calling Error() on it panics.
equal(exported, v, x) ==
    CASE ~exported -> Answer(FALSE)
      [] CanStruct(v) /\ CanStruct(x) -> Answer(DeepEqual(v, x))
      [] CanDuration(v) /\ CanDuration(x) -> Answer(v.n = x.n)
      [] CanTime(v) /\ CanTime(x) -> Answer(v.n = x.n)
      [] CanError(v) /\ CanError(x) ->
           IF v.nil \/ x.nil THEN [eq |-> FALSE, panic |-> TRUE] ELSE Answer(v.s = x.s)
      [] CanString(v) /\ CanString(x) -> Answer(v.s = x.s)
      [] CanBool(v) /\ CanBool(x) -> Answer(v.n = x.n)
      [] CanInt(v) /\ CanInt(x) -> Answer(~OverflowInt(v.k, x.n) /\ v.n = x.n)
      [] CanUint(v) /\ CanUint(x) -> Answer(~OverflowUint(v.k, x.n) /\ v.n = x.n)
      [] CanFloat(v) /\ CanFloat(x) -> Answer(~OverflowFloat(v.k, x.n) /\ v.n = x.n)
      [] CanComplex(v) /\ CanComplex(x) ->
           Answer(~OverflowComplex(v.k, x.n, x.m) /\ v.n = x.n /\ v.m = x.m)
      [] CanBytes(v) /\ CanBytes(x) -> Answer(v.s = x.s)
      [] OTHER -> Answer(DeepEqual(v, x))

\* StructField.Equal on slot i of table b, against the slot of another
\* descriptor whose record is at address a; ret.val is 1 for true
EqualField(b, i, a) ==
    /\ ~panicked /\ SlotExists(b, i)
    /\ LET o == equal(Slot(b, i).sf.exported, Read(b, i), mem[a][<<0>>])
       IN  /\ panicked' = o.panic
           /\ ret' = Returned("Equal", b, IF o.eq THEN 1 ELSE 0, Nil)
    /\ UNCHANGED <<input, mem, sv, rownum, opened, tables, closed, trues>>

(***************************************************************************)
(* SpecEqual: two records of one field each,  struct { V T }  at address 0 *)
(* and  struct { V U }  at address 1, the field exported or not, and Equal *)
(* on the field of the first against the field of the second.              *)
(***************************************************************************)
EqualValues ==
    {Val("int8", 5, <<>>), Val("int64", 5, <<>>), Val("int64", 300, <<>>),
     Val("uint64", 5, <<>>), Val("float64", 10, <<>>), Val("duration", 5, <<>>),
     Val("time", 5, <<>>), Val("bool", 1, <<>>), Text(<<"5">>), Text(<<"e">>),
     Val("bytes", 0, <<"e">>), Val("error", 0, <<"e">>), ZeroOf(Ty("error")),
     [Val("complex128", 10, <<>>) EXCEPT !.m = 0], Val("struct", 5, <<>>),
     PointerTo(Val("int8", 5, <<>>)), ZeroOf(PtrTy("int8")), ZeroOf(Ty("int8"))}

InitEqual ==
    \E v \in EqualValues : \E x \in EqualValues : \E e \in BOOLEAN :
      InitWith(<<"ptr", "struct">>, 1, <<[Decl("V", TypeOf(v)) EXCEPT !.exported = e]>>,
               [a \in {0, 1} |-> [p \in {<<0>>} |-> IF a = 0 THEN v ELSE x]])

StepEqual ==
    \/ Fields(0)
    \/ EqualField(0, 0, 1)

SpecEqual == InitEqual /\ [][StepEqual]_vars

\* C22: Equal is false whenever the receiver slot is unexported; between
\* two records of the same type it is false on an unexported field of equal
\* value and true on every exported field of equal value; it changes
\* neither slot.
C22_UnexportedNeverEqual ==
    [][(ret'.op = "Equal" /\ EqualField(0, 0, 1))
         => /\ mem' = mem
            /\ ~panicked'
            /\ ~Slot(0, 0).sf.exported => ret'.val = 0
            /\ (Slot(0, 0).sf.exported /\ mem[0][<<0>>] = mem[1][<<0>>]) => ret'.val = 1]_vars

\* the same, but for error fields that hold nil
C22_ButNilErrors ==
    [][(ret'.op = "Equal" /\ EqualField(0, 0, 1)
          /\ ~(CanError(mem[0][<<0>>]) /\ CanError(mem[1][<<0>>])
                 /\ (mem[0][<<0>>].nil \/ mem[1][<<0>>].nil)))
         => /\ mem' = mem
            /\ ~panicked'
            /\ ~Slot(0, 0).sf.exported => ret'.val = 0
            /\ (Slot(0, 0).sf.exported /\ mem[0][<<0>>] = mem[1][<<0>>]) => ret'.val = 1]_vars

\* the category Equal's specification gives a value: one of those of the
\* conversion table, or the nested record
EqualCategory(v) == IF v.k = "struct" /\ ~v.p THEN "record" ELSE SlotCategory(TypeOf(v))

\* C23: on an exported slot, Equal is false for any other value of a
\* different category, whatever the two values are.
C23_CategoriesDiffer ==
    [][(/\ ret'.op = "Equal" /\ EqualField(0, 0, 1) /\ ~panicked'
        /\ Slot(0, 0).sf.exported
        /\ EqualCategory(mem[0][<<0>>]) # "none" /\ EqualCategory(mem[1][<<0>>]) # "none"
        /\ EqualCategory(mem[0][<<0>>]) # EqualCategory(mem[1][<<0>>]))
         => ret'.val = 0]_vars

\* the same, for every pair but a duration and a signed integer
C23_ButDurations ==
    [][(/\ ret'.op = "Equal" /\ EqualField(0, 0, 1) /\ ~panicked'
        /\ Slot(0, 0).sf.exported
        /\ EqualCategory(mem[0][<<0>>]) # "none" /\ EqualCategory(mem[1][<<0>>]) # "none"
        /\ EqualCategory(mem[0][<<0>>]) # EqualCategory(mem[1][<<0>>])
        /\ {EqualCategory(mem[0][<<0>>]), EqualCategory(mem[1][<<0>>])} # {"duration", "signed"})
         => ret'.val = 0]_vars

(***************************************************************************)
(* StructValue.IsZero and HasZero.  The record is at address 0; a nested   *)
(* record that is the field at index path x has its own fields at the      *)
(* paths x \o <<0>>, x \o <<1>>, ...  An answer is the bool returned,      *)
(* whether the call panicked, and whether Struct() was called on a field   *)
(* of the record itself, which overwrites the pending error of the         *)
(* descriptor with the nested one's (none).                                *)
(***************************************************************************)
\* StructField.IsZero
FieldIsZero(exported, v) == exported /\ v = ZeroOf(TypeOf(v))

\* utils.CanStruct asks utils.CanTime of a value of struct kind, which calls
\* v.Interface(): reflect panics when v was obtained from an unexported field
CanStructPanics(exported, v) == ~exported /\ v.k = "struct" /\ (v.p => ~v.pnil)

Found(b, descended) == [res |-> b, panic |-> FALSE, descended |-> descended]

RECURSIVE IsZeroFrom(_, _, _, _)
\* the loop of IsZero over the entries m of Fields(), from entry i on
IsZeroFrom(m, x, i, descended) ==
    IF i > Len(m) THEN Found(TRUE, descended)
    ELSE LET e == m[i]
             v == mem[0][x \o e.Indexes]
         IN  IF ~e.sf.exported THEN IsZeroFrom(m, x, i + 1, descended)
             ELSE IF CanStruct(v)
                  THEN IF ~IsZeroFrom(Explode(e.sf.sub), x \o e.Indexes, 1, FALSE).res
                       THEN Found(FALSE, TRUE)
                       ELSE IsZeroFrom(m, x, i + 1, TRUE)
                  ELSE IF ~FieldIsZero(e.sf.exported, v) THEN Found(FALSE, descended)
                       ELSE IsZeroFrom(m, x, i + 1, descended)

RECURSIVE HasZeroFrom(_, _, _, _)
\* the loop of HasZero, which asks CanStruct of every field
HasZeroFrom(m, x, i, descended) ==
    IF i > Len(m) THEN Found(FALSE, descended)
    ELSE LET e == m[i]
             v == mem[0][x \o e.Indexes]
         IN  IF CanStructPanics(e.sf.exported, v)
             THEN [res |-> FALSE, panic |-> TRUE, descended |-> descended]
             ELSE IF CanStruct(v)
                  THEN LET r == HasZeroFrom(Explode(e.sf.sub), x \o e.Indexes, 1, FALSE)
                       IN  IF r.panic \/ r.res THEN [r EXCEPT !.descended = TRUE]
                           ELSE HasZeroFrom(m, x, i + 1, TRUE)
                  ELSE IF FieldIsZero(e.sf.exported, v) THEN Found(TRUE, descended)
                       ELSE HasZeroFrom(m, x, i + 1, descended)

\* a call of IsZero or HasZero on descriptor d, with answer r; ret.val is 1
\* for true
ZeroCall(op, d, r) ==
    /\ ~panicked /\ Exists(d)
    /\ IF FieldsPanic(d) THEN Panic(op, d)
       ELSE /\ tables' = TablesAfterGetFields(d)
            /\ sv' = IF r.descended THEN [SvAfterGetFields(d) EXCEPT ![d].Error = Nil]
                     ELSE SvAfterGetFields(d)
            /\ panicked' = r.panic
            /\ ret' = Returned(op, d, IF r.res THEN 1 ELSE 0, Nil)
            /\ UNCHANGED <<input, mem, rownum, opened, closed, trues>>

\* StructValue.IsZero
IsZero(d) == ZeroCall("IsZero", d, IsZeroFrom(Explode(input.stype), <<>>, 1, FALSE))

\* StructValue.HasZero
HasZero(d) == ZeroCall("HasZero", d, HasZeroFrom(Explode(input.stype), <<>>, 1, FALSE))

(***************************************************************************)
(* SpecZero: IsZero and HasZero on the records of up to MaxFields fields,  *)
(* exported or not, each an int8 or a nested record of int8 fields; every  *)
(* int8 is 0 or 1.                                                         *)
(***************************************************************************)
Hidden(ty) == [Decl("", ty) EXCEPT !.exported = FALSE]

ZeroScalars == {Decl("", Ty("int8")), Hidden(Ty("int8"))}

ZeroInner == {Named(o) : o \in UNION {[1..k -> ZeroScalars] : k \in 1..MaxFields}}

ZeroTypes ==
    {Named(o) : o \in UNION {[1..k -> ZeroScalars
                                        \cup {[Decl("", Ty("struct")) EXCEPT !.sub = r] : r \in ZeroInner}
                                        \cup {[Hidden(Ty("struct")) EXCEPT !.sub = r] : r \in ZeroInner}] :
                               k \in 1..MaxFields}}

\* the index paths of the fields of a record and of its nested records
DeepPaths(fields) ==
    {<<j - 1>> : j \in 1..Len(fields)}
      \cup UNION {{<<j - 1, i - 1>> : i \in 1..Len(fields[j].sub)} : j \in 1..Len(fields)}

\* the values of a record whose int8 fields hold z[path]
ZeroRecord(fields, z) ==
    [x \in DeepPaths(fields) |->
       IF DeclaredAt(fields, x).ty = Ty("struct") THEN Val("struct", 0, <<>>)
       ELSE Val("int8", z[x], <<>>)]

InitZero ==
    \E t \in ZeroTypes : \E z \in [DeepPaths(t) -> {0, 1}] :
      InitWith(<<"ptr", "struct">>, 1, t, [a \in {0} |-> ZeroRecord(t, z)])

StepZero ==
    \/ IsZero(0)
    \/ HasZero(0)
    \/ Field(0, KeyOther)
    \/ Err

SpecZero == InitZero /\ [][StepZero]_vars

\* the int8 fields that are exported and reached through exported nested
\* records only
Accessible(fields) ==
    {x \in DeepPaths(fields) :
       /\ DeclaredAt(fields, x).ty # Ty("struct")
       /\ \A k \in 1..Len(x) : DeclaredAt(fields, SubSeq(x, 1, k)).exported}

\* C24: IsZero is true exactly when every exported field, descending into
\* nested records, holds its zero value, and HasZero exactly when at least
\* one of them does; unexported fields influence neither.
C24_ZeroOverExported ==
    [][/\ (ret'.op = "IsZero" /\ IsZero(0))
            => /\ ~panicked'
               /\ ret'.val = 1 <=> \A x \in Accessible(input.stype) : mem[0][x].n = 0
       /\ (ret'.op = "HasZero" /\ HasZero(0))
            => /\ ~panicked'
               /\ ret'.val = 1 <=> \E x \in Accessible(input.stype) : mem[0][x].n = 0]_vars

\* the same, with HasZero on the records that have no unexported nested
\* record
C24_ButHiddenRecords ==
    [][/\ (ret'.op = "IsZero" /\ IsZero(0))
            => /\ ~panicked'
               /\ ret'.val = 1 <=> \A x \in Accessible(input.stype) : mem[0][x].n = 0
       /\ (/\ ret'.op = "HasZero" /\ HasZero(0)
           /\ \A j \in 1..Len(input.stype) :
                input.stype[j].ty = Ty("struct") => input.stype[j].exported)
            => /\ ~panicked'
               /\ ret'.val = 1 <=> \E x \in Accessible(input.stype) : mem[0][x].n = 0]_vars

(***************************************************************************)
(* StructValue.Import and Forward.  The receiver s is descriptor 0 over    *)
(* the record at address 0, of type input.stype; the source c is           *)
(* descriptor 1 over the record at address 1, of type input.ctype.         *)
(***************************************************************************)
\* c.Field(n) on the source: the entries of its table, and the one its
\* fieldsByName holds for n (the last loaded), 0 for none
SourceFields == Explode(input.ctype)

SourceByName(n) ==
    LET named == {j \in 1..Len(SourceFields) : SourceFields[j].sf.name = n}
    IN  IF named = {} THEN 0 ELSE CHOOSE j \in named : \A k \in named : k <= j

\* the loop of Import (skipZero FALSE) and Forward (skipZero TRUE) over the
\* entries m of s.Fields(), from entry i on: rec is the receiver's record so
\* far, pending the error staged on c.  reflect's v.Set(x) panics when the
\* type of x is not that of v.
RECURSIVE CopyFrom(_, _, _, _, _)
CopyFrom(m, i, rec, skipZero, pending) ==
    IF i > Len(m) THEN [rec |-> rec, err |-> Nil, panic |-> FALSE, drained |-> pending = Nil]
    ELSE LET e == m[i]
             j == SourceByName(e.sf.name)
             err == IF j = 0 THEN errFieldName(e.sf.name) ELSE pending
             x == mem[1][SourceFields[j].Indexes]
         IN  IF ~(e.sf.exported /\ Addressable) THEN CopyFrom(m, i + 1, rec, skipZero, pending)
             ELSE IF err # Nil THEN [rec |-> rec, err |-> err, panic |-> FALSE, drained |-> TRUE]
             ELSE IF skipZero /\ FieldIsZero(SourceFields[j].sf.exported, x)
                  THEN CopyFrom(m, i + 1, rec, skipZero, Nil)
             ELSE IF TypeOf(x) # TypeOf(rec[e.Indexes])
                  THEN [rec |-> rec, err |-> Nil, panic |-> TRUE, drained |-> TRUE]
             ELSE CopyFrom(m, i + 1, [rec EXCEPT ![e.Indexes] = x], skipZero, Nil)

CopyCall(op, skipZero) ==
    /\ ~panicked /\ Exists(0)
    /\ LET r == CopyFrom(Explode(input.stype), 1, mem[0], skipZero, sv[1].Error)
       IN  /\ mem' = [mem EXCEPT ![0] = r.rec]
           /\ tables' = TablesAfterGetFields(0)
           /\ sv' = [SvAfterGetFields(0) EXCEPT ![1].Error = IF r.drained THEN Nil ELSE @]
           /\ panicked' = r.panic
           /\ ret' = Returned(op, 0, 0, r.err)
    /\ UNCHANGED <<input, rownum, opened, closed, trues>>

\* s.Import(c)
Import == CopyCall("Import", FALSE)

\* s.Forward(c)
Forward == CopyCall("Forward", TRUE)

(***************************************************************************)
(* SpecCopy: Import and Forward between two records whose types are drawn  *)
(* from CopyTypes; the int8 fields of the receiver hold 0 or 1, those of   *)
(* the source 0 or 2, the strings are empty or not.                        *)
(***************************************************************************)
CopyTypes ==
    {<<Decl("A", Ty("int8")), Decl("B", Ty("int8"))>>,
     <<Decl("A", Ty("int8"))>>,
     <<Decl("A", Ty("int8")), Decl("B", Ty("string"))>>,
     <<Decl("A", Ty("int8")), [Decl("b", Ty("int8")) EXCEPT !.exported = FALSE]>>,
     <<Decl("A", Ty("int8")), Embedded("In", <<Decl("A", Ty("int8"))>>)>>,
     <<Decl("B", Ty("int8")), Embedded("In", <<Decl("A", Ty("int8"))>>)>>}

\* a record of type t whose fields are zero where z says so
CopyRecord(t, z, n) ==
    [x \in LeafPaths(t) |->
       IF z[x] = 0 THEN ZeroOf(LeafType(t, x))
       ELSE IF LeafType(t, x) = Ty("string") THEN Text(<<"x">>)
       ELSE Val("int8", n, <<>>)]

InitCopy ==
    \E path \in SetShapes : \E t \in CopyTypes : \E u \in CopyTypes :
      \E z \in [LeafPaths(t) -> {0, 1}] : \E y \in [LeafPaths(u) -> {0, 1}] :
        /\ input = [path |-> path, n |-> 1, stype |-> t, ctype |-> u]
        /\ mem = [a \in {0, 1} |-> IF a = 0 THEN CopyRecord(t, z, 1) ELSE CopyRecord(u, y, 2)]
        /\ sv = [d \in Descs |->
                   IF d = 0 THEN New(path).s
                   ELSE IF d = 1 THEN [New(<<"ptr", "struct">>).s EXCEPT !.value = 1]
                   ELSE ZeroStructValue]
        /\ ret = Returned("New", 0, 0, New(path).err)
        /\ rownum = [c \in Cursors |-> OutOfRange]
        /\ opened = 0
        /\ tables = NoTables
        /\ panicked = FALSE
        /\ closed = {}
        /\ trues = [c \in Cursors |-> 0]

StepCopy ==
    \/ Import
    \/ Forward
    \/ Fields(0)

SpecCopy == InitCopy /\ [][StepCopy]_vars

\* the fields a record type shows, by index path, and the one a name
\* selects: the shallowest of that name
Shown(fields) == {x \in PathsOver(fields) : ~DeclaredAt(fields, x).anon}

Selected(fields, n) ==
    LET named == {x \in Shown(fields) : DeclaredAt(fields, x).name = n}
    IN  CHOOSE x \in named : \A y \in named : Len(x) <= Len(y)

HasNamed(fields, n) == \E x \in Shown(fields) : DeclaredAt(fields, x).name = n

SettableIn(x) == DeclaredAt(input.stype, x).exported /\ Addressable

\* what the claim says of a call that copied (all TRUE) or forwarded
CopiedAsSaid(all) ==
    /\ mem'[1] = mem[1]
    /\ (\E x \in Shown(input.stype) :
          SettableIn(x) /\ ~HasNamed(input.ctype, DeclaredAt(input.stype, x).name))
         => ret'.err # Nil
    /\ ret'.err = Nil =>
         \A x \in Shown(input.stype) :
           LET src == mem[1][Selected(input.ctype, DeclaredAt(input.stype, x).name)]
           IN  mem'[0][x] = IF SettableIn(x) /\ (all \/ src # ZeroOf(TypeOf(src)))
                            THEN src ELSE mem[0][x]

\* C25: after Forward returns nil every settable field of s whose same-named
\* field in c is not zero equals it and every other field of s is as before;
\* after Import returns nil every settable field of s equals the same-named
\* field of c; both return an error when a settable field of s has no field
\* of its name in c; c is never modified.
C25_CopyByName ==
    [][/\ (ret'.op = "Import" /\ ~panicked' /\ Import) => CopiedAsSaid(TRUE)
       /\ (ret'.op = "Forward" /\ ~panicked' /\ Forward) => CopiedAsSaid(FALSE)]_vars

DistinctNames(fields) ==
    \A x, y \in Shown(fields) : x # y => DeclaredAt(fields, x).name # DeclaredAt(fields, y).name

\* the same, between records whose shown field names are distinct
C25_DistinctNames ==
    [][(DistinctNames(input.stype) /\ DistinctNames(input.ctype))
         => /\ (ret'.op = "Import" /\ ~panicked' /\ Import) => CopiedAsSaid(TRUE)
            /\ (ret'.op = "Forward" /\ ~panicked' /\ Forward) => CopiedAsSaid(FALSE)]_vars

Succeeds(d) ==
    /\ ret'.who = d /\ ~panicked'
    /\ \/ ret'.op = "Field" /\ ret'.val # OutOfRange
       \/ ret'.op = "Next" /\ ret'.val = 1
       \/ ret'.op = "Close"

\* C27: an error staged by a failed lookup stays pending over every
\* operation that does not fail (a successful Field, a successful Next,
\* Close) until Err returns it.
C27_StagedErrorKept ==
    [][\A d \in FieldDescs :
         (sv[d].Error # Nil /\ Succeeds(d)) => sv'[d].Error = sv[d].Error]_vars

\* the part that holds: a successful lookup keeps the pending error, and
\* the Err that follows returns it
C27_KeptByLookups ==
    [][\A d \in FieldDescs :
         /\ (sv[d].Error # Nil /\ Succeeds(d) /\ ret'.op = "Field")
              => sv'[d].Error = sv[d].Error
         /\ (ret'.op = "Err" /\ ret'.who = d /\ (IF d = 0 THEN Err ELSE ErrRows(d)))
              => ret'.err = sv[d].Error]_vars

(***************************************************************************)
(* StructValue.Defaults.  The record has one field, F, of type             *)
(* input.stype[1].ty, whose default tag is the text input.tag.             *)
(***************************************************************************)
\* strings.TrimSpace, for the blank
RECURSIVE TrimSpace(_)
TrimSpace(s) ==
    IF s # <<>> /\ Head(s) = " " THEN TrimSpace(Tail(s))
    ELSE IF s # <<>> /\ s[Len(s)] = " " THEN TrimSpace(SubSeq(s, 1, Len(s) - 1))
    ELSE s

\* strings.Trim(s, c)
RECURSIVE Trim(_, _)
Trim(s, c) ==
    IF s # <<>> /\ Head(s) = c THEN Trim(Tail(s), c)
    ELSE IF s # <<>> /\ s[Len(s)] = c THEN Trim(SubSeq(s, 1, Len(s) - 1), c)
    ELSE s

\* StructField.Default: the tag, or the empty text when it is to be skipped
Default(tag) ==
    LET skip == \/ ContainsAny(tag, {"("}) /\ ContainsAny(tag, {")"})
                \/ ToLower(tag) = <<"n", "u", "l", "l">>
                \/ tag = <<>>
    IN  IF ~skip THEN TrimSpace(tag) ELSE <<>>

AllDigits(s) == s # <<>> /\ \A i \in 1..Len(s) : IsDigit(s[i])

\* strconv.ParseBool: [ok, n]
ParseBool(s) ==
    IF s \in {<<"1">>, <<"t">>, <<"T">>, <<"T", "R", "U", "E">>, <<"t", "r", "u", "e">>, <<"T", "r", "u", "e">>}
    THEN [ok |-> TRUE, n |-> 1]
    ELSE IF s \in {<<"0">>, <<"f">>, <<"F">>, <<"F", "A", "L", "S", "E">>, <<"f", "a", "l", "s", "e">>,
                   <<"F", "a", "l", "s", "e">>}
    THEN [ok |-> TRUE, n |-> 0]
    ELSE [ok |-> FALSE, n |-> 0]

\* strconv.ParseUint(s, 0, 64) of a decimal literal (the prefixed and
\* underscored forms of base 0 are not among the tags): [ok, n]
ParseUint(s) ==
    IF AllDigits(s) /\ (Len(s) = 1 \/ Head(s) # "0")
    THEN [ok |-> TRUE, n |-> StrToNat(s, 0)] ELSE [ok |-> FALSE, n |-> 0]

\* strconv.ParseInt(s, 0, 64), likewise
ParseInt(s) ==
    LET signed == s # <<>> /\ Head(s) \in {"+", "-"}
        r == ParseUint(IF signed THEN Tail(s) ELSE s)
    IN  [ok |-> r.ok, n |-> IF signed /\ Head(s) = "-" THEN -r.n ELSE r.n]

\* strconv.ParseFloat(s, 64) of digits with an optional fraction .0 or .5:
\* [ok, n], n in halves
ParseFloat(s) ==
    LET signed == s # <<>> /\ Head(s) \in {"+", "-"}
        body == IF signed THEN Tail(s) ELSE s
        ds == DigitPrefix(body)
        rest == SubSeq(body, Len(ds) + 1, Len(body))
        h == 2 * StrToNat(ds, 0) + (IF rest = <<".", "5">> THEN 1 ELSE 0)
    IN  IF ds # <<>> /\ rest \in {<<>>, <<".", "0">>, <<".", "5">>}
        THEN [ok |-> TRUE, n |-> IF signed /\ Head(s) = "-" THEN -h ELSE h]
        ELSE [ok |-> FALSE, n |-> 0]

CanSlice(v) == ~v.p /\ v.k \in {"slice", "bytes"}

CanMap(v) == ~v.p /\ v.k = "map"

errDefault(what) == [msg |-> "failed to parse as default value", name |-> what, idx |-> 0]
errSliceDefault == NewError("slice default struct tag value not supported")
errMapDefault == NewError("map default struct tag value not supported")

\* the default tag of the one field of the nested record
InnerTag == <<"7">>

Parsed(r, what, nv) == IF r.ok THEN [err |-> Nil, nv |-> nv] ELSE [err |-> errDefault(what), nv |-> nv]

\* the switch of Defaults on a settable zero field v whose default is d:
\* the error returned and the value the field holds afterwards
RECURSIVE DefaultOf(_, _)
DefaultOf(v, d) ==
    CASE CanStruct(v) ->
           LET in == DefaultOf(ZeroOf(Ty("int8")), Default(InnerTag))
           IN  [err |-> in.err, nv |-> [v EXCEPT !.n = in.nv.n]]
      [] CanBool(v) -> Parsed(ParseBool(d), "bool", [v EXCEPT !.n = ParseBool(d).n])
      [] CanInt(v) -> Parsed(ParseInt(d), "int", [v EXCEPT !.n = WrapInt(v.k, ParseInt(d).n)])
      [] CanUint(v) -> Parsed(ParseUint(d), "uint", [v EXCEPT !.n = WrapUint(v.k, ParseUint(d).n)])
      [] CanFloat(v) -> Parsed(ParseFloat(d), "float", [v EXCEPT !.n = ParseFloat(d).n])
      [] CanDuration(v) -> Parsed(ParseDuration(d), "duration", [v EXCEPT !.n = ParseDuration(d).n])
      [] CanTime(v) -> Parsed(StringToTime(d), "time", [v EXCEPT !.n = StringToTime(d).n])
      [] CanString(v) -> [err |-> Nil, nv |-> [v EXCEPT !.s = Trim(Trim(d, "'"), "\"")]]
      [] CanBytes(v) -> [err |-> Nil, nv |-> [v EXCEPT !.s = d, !.nil = FALSE]]
      [] CanSlice(v) -> [err |-> errSliceDefault, nv |-> v]
      [] CanMap(v) -> [err |-> errMapDefault, nv |-> v]
      [] OTHER -> [err |-> Nil, nv |-> v]

\* s.Defaults() on the descriptor New returned
Defaults ==
    /\ ~panicked /\ Exists(0)
    /\ LET f == Explode(input.stype)[1]
           v == mem[0][f.Indexes]
           d == Default(input.tag)
           r == IF f.sf.exported /\ Addressable /\ FieldIsZero(f.sf.exported, v) /\ d # <<>>
                THEN DefaultOf(v, d) ELSE [err |-> Nil, nv |-> v]
       IN  /\ mem' = [mem EXCEPT ![0][f.Indexes] = IF r.err = Nil THEN r.nv ELSE @]
           /\ ret' = Returned("Defaults", 0, 0, r.err)
    /\ tables' = TablesAfterGetFields(0)
    /\ sv' = SvAfterGetFields(0)
    /\ UNCHANGED <<input, rownum, opened, panicked, closed, trues>>

(***************************************************************************)
(* SpecDefaults: Defaults on a record of one field, over the field types   *)
(* and tags below, the field zero or not, the record addressable or not.   *)
(***************************************************************************)
DefaultKinds ==
    {"bool", "int8", "int64", "uint8", "uint64", "float64", "duration", "time", "string",
     "bytes", "struct", "slice", "map"}

DefaultTags ==
    {<<>>, <<"5", "s">>, <<"5">>, <<" ", "5">>, <<"-", "3">>, <<"3", "0", "0">>, <<"1", ".", "5">>,
     <<"t", "r", "u", "e">>, <<"'", "x", "'">>, <<"N", "u", "l", "l">>, <<"f", "(", ")">>,
     <<"2", "0", "2", "1", "-", "0", "1", "-", "0", "2">>}

\* a value of type t that is not its zero
NonZeroOf(t) ==
    [ZeroOf(t) EXCEPT !.n = 1, !.nil = FALSE,
                      !.s = IF t.k \in {"string", "bytes"} THEN <<"y">> ELSE <<>>]

InitDefaults ==
    \E path \in SetShapes : \E k \in DefaultKinds : \E tag \in DefaultTags : \E zero \in BOOLEAN :
      /\ input = [path |-> path, n |-> 1, stype |-> <<Decl("F", Ty(k))>>, tag |-> tag]
      /\ mem = [a \in {0} |-> [x \in {<<0>>} |-> IF zero THEN ZeroOf(Ty(k)) ELSE NonZeroOf(Ty(k))]]
      /\ sv = [d \in Descs |-> IF d = 0 THEN New(path).s ELSE ZeroStructValue]
      /\ ret = Returned("New", 0, 0, New(path).err)
      /\ rownum = [c \in Cursors |-> OutOfRange]
      /\ opened = 0
      /\ tables = NoTables
      /\ panicked = FALSE
      /\ closed = {}
      /\ trues = [c \in Cursors |-> 0]

StepDefaults ==
    \/ Defaults
    \/ Fields(0)

SpecDefaults == InitDefaults /\ [][StepDefaults]_vars

\* the one category the claim gives a field type, and what a tag is for it:
\* [ok, n] for the categories that parse a number
CategoryOf(k) ==
    CASE k = "bool" -> "bool"
      [] k \in {"int8", "int64"} -> "signed"
      [] k \in {"uint8", "uint64"} -> "unsigned"
      [] k = "float64" -> "float"
      [] k = "duration" -> "duration"
      [] k = "time" -> "timestamp"
      [] k = "string" -> "string"
      [] k = "bytes" -> "bytes"
      [] k = "struct" -> "record"
      [] OTHER -> k

ParsedAs(cat, d) ==
    CASE cat = "bool" -> ParseBool(d)
      [] cat = "signed" -> ParseInt(d)
      [] cat = "unsigned" -> ParseUint(d)
      [] cat = "float" -> ParseFloat(d)
      [] cat = "duration" -> ParseDuration(d)
      [] cat = "timestamp" -> StringToTime(d)
      [] OTHER -> [ok |-> TRUE, n |-> 0]

\* Defaults was called on a settable zero field with a default
Defaulting ==
    /\ Addressable /\ mem[0][<<0>>] = ZeroOf(input.stype[1].ty) /\ Default(input.tag) # <<>>

\* what the claim says of a call of Defaults on a field of a category in cats
DefaultedAsSaid(cats) ==
    LET k == input.stype[1].ty.k
        d == Default(input.tag)
        r == ParsedAs(CategoryOf(k), d)
    IN  (Defaulting /\ CategoryOf(k) \in cats) =>
          /\ k \in {"slice", "map"} => ret'.err # Nil
          /\ (CategoryOf(k) \in {"bool", "signed", "unsigned", "float", "duration", "timestamp"} /\ r.ok)
               => /\ ret'.err = Nil
                  /\ mem'[0][<<0>>].n = IF CategoryOf(k) = "signed" THEN WrapInt(k, r.n)
                                        ELSE IF CategoryOf(k) = "unsigned" THEN WrapUint(k, r.n)
                                        ELSE r.n
          /\ (CategoryOf(k) \in {"bool", "signed", "unsigned", "float", "duration", "timestamp"} /\ ~r.ok)
               => ret'.err # Nil /\ mem' = mem
          /\ CategoryOf(k) \in {"string", "bytes"} => ret'.err = Nil /\ mem'[0][<<0>>].s # <<>>
          /\ CategoryOf(k) = "record" => ret'.err = Nil /\ mem'[0][<<0>>].n = 7

\* C28: Defaults parses each default tag by the field's own category, one of
\* bool, signed, unsigned, float, duration, timestamp, string, byte sequence
\* and nested record: a settable zero duration field tagged "5s" is assigned
\* five seconds; a slice or map field with a default tag makes it fail.
C28_ParsedByCategory ==
    [][(ret'.op = "Defaults" /\ Defaults)
         => DefaultedAsSaid({CategoryOf(k) : k \in DefaultKinds})]_vars

\* the same for every category but duration
C28_ButDurations ==
    [][(ret'.op = "Defaults" /\ Defaults)
         => DefaultedAsSaid({CategoryOf(k) : k \in DefaultKinds} \ {"duration"})]_vars

(***************************************************************************)
(* The position of a cursor and the sharing of field slots, under Spec.    *)
(***************************************************************************)
\* C29: the position p of an open cursor satisfies -1 <= p < Len(); it is
\* -1 when Rows returns the cursor, a Next that returns true adds exactly 1
\* to it, and no operation lowers it or moves it otherwise.
C29_PositionInRange ==
    /\ [](\A c \in 1..opened : ~isClosed(c) => (-1 <= rownum[c] /\ rownum[c] < LenRows(c)))
    /\ [][/\ (ret'.op = "Rows" /\ ret'.who # 0 /\ Rows) => rownum'[ret'.who] = -1
          /\ \A c \in 1..opened :
               /\ rownum'[c] \in {rownum[c], rownum[c] + 1}
               /\ (ret'.op = "Next" /\ ret'.who = c /\ ret'.val = 1 /\ Next(c))
                    => rownum'[c] = rownum[c] + 1
               /\ rownum'[c] # rownum[c]
                    => (ret'.op = "Next" /\ ret'.who = c /\ ret'.val = 1)]_vars

\* a cursor went from -1 to the last of two rows and is still open after a
\* lookup
C29_Witness ==
    \E c \in 1..opened :
      /\ RowsLen = 2 /\ rownum[c] = 1 /\ trues[c] = 2 /\ ~isClosed(c)
      /\ ret.op = "Field" /\ ret.who = c

\* every slot of table t is bound to the record at address a and reads it
AllRead(t, a) ==
    \A i \in 1..Len(tables[t].byIndex) :
      /\ tables[t].byIndex[i].addr = a
      /\ Read(t, i - 1) = mem[a][tables[t].byIndex[i].indexes]

====
